---- MODULE Spec2Model ----
(***************************************************************************)
(* The task processing pipeline of the code generator:                     *)
(*   - the queue consumers SQSSimpleProcessor (sqs_processor_simple.py)    *)
(*     and SQSE2BProcessor (sqs_e2b_processor.py),                         *)
(*   - the orchestrators SimpleE2BGenerator.process_task (e2b_simple.py)   *)
(*     and E2BCodeGenerator.process_task with process_sqs_message          *)
(*     (e2b_handler.py).                                                   *)
(* One consumer runs; `variant` says which of the two programs it is.      *)
(* Every call to an external collaborator (queue, generation service,      *)
(* sandbox, storage, file system) is one step whose outcome is chosen      *)
(* nondeterministically among: it returns, it raises an Exception, or a    *)
(* KeyboardInterrupt (the shutdown signal) is delivered at that point.     *)
(***************************************************************************)
EXTENDS Naturals, Sequences, FiniteSets

\* ---------------------------------------------------------------- bounds
NumMsgs == 2          \* messages that exist in the queue
MaxBatch == 2         \* max_messages of poll_and_process
MaxDeliveries == 2    \* receive calls that return messages, per run

\* time.sleep(5) of the three error handlers of poll_and_process
BackoffSeconds == 5

Msgs == 1..NumMsgs

\* What json.loads makes of a message body:
\*   "task"      a JSON object with a string specification (a valid Task)
\*   "notjson"   not parseable as JSON at all
\*   "badtask"   valid JSON that is no Task: not an object (42, [1], "x"),
\*               or an object whose specification is a number, null or boolean
BodyKinds == {"task", "notjson", "badtask"}

\* "simple": SQSSimpleProcessor with SimpleE2BGenerator
\* "e2b":    SQSE2BProcessor with process_sqs_message and E2BCodeGenerator
\* "sync":   test_simple of e2b_claude_sync.py, one call of
\*           E2BClaudeCodeGenerator.process_task
Variants == {"simple", "e2b", "sync"}

VARIABLES
  variant,      \* which consumer program runs
  s3_enabled,   \* SimpleE2BGenerator.s3_enabled, set by the probe in __init__
  probe,        \* what head_bucket did in __init__ ("none": not called)
  missing_vars, \* the required environment variables that are unset
  bodies,       \* message id -> kind of its body
  qstate,       \* message id -> "visible" | "inflight" | "deleted"
  deliveries,   \* number of receive calls that returned messages
  running,      \* self.running
  pc,           \* position of the consumer
  batch,        \* messages of the current receive
  idx,          \* index in batch of the message being handled
  recvErr,      \* the error the last receive_message raised, until slept on
  lastSleep,    \* seconds of the last time.sleep
  interrupted,  \* a KeyboardInterrupt has been delivered
  att,          \* the locals of the message handling / task attempt in progress
  now,          \* int(time.time()), in seconds since the first delivery
  disk,         \* path -> number of the attempt that last wrote the file
  rd,           \* one message followed over its deliveries (SpecRedelivery)
  call,         \* one call of a helper function: its arguments and its result
  active_sandboxes, \* ps.py: sandbox id -> the sandbox registered under it
  cloud,        \* E2B: the sandboxes created so far, each "live" or "killed"
  response,     \* ps.py: the answer to the last request
  returned,     \* the sandbox ids that answers of /run-in-e2b carried
  answered,     \* the sandbox ids for which /kill-sandbox answered "killed"
  preview       \* e2b_react_preview.py: the run of start_e2b_preview

\* the variables of the consumer run
mainVars == <<variant, s3_enabled, probe, missing_vars, bodies, qstate,
              deliveries, running, pc, batch, idx, recvErr, lastSleep,
              interrupted, att>>

\* the variables of the specifications that follow one message over its
\* deliveries or one call of a helper function
\* the variables of the patent-search server and of the preview script
webVars == <<active_sandboxes, cloud, response, returned, answered, preview>>

auxVars == <<now, disk, rd, call, webVars>>

vars == <<mainVars, auxVars>>

envVars == <<variant, s3_enabled, probe, missing_vars, bodies, auxVars>>

\* ------------------------------------------------------------- records
\* A result dictionary. A key the dictionary does not hold is "absent"; a key
\* holding Python's None is "None". files_created is read everywhere with
\* .get('files_created', []), so an absent list is <<>>.
NoResult ==
  [status |-> "none", error |-> "absent", files_created |-> <<>>,
   s3_url |-> "absent", local_archive |-> "absent", task_id |-> "absent"]

\* the dict of the except branch of process_task
FailedRecord(err) ==
  [status |-> "failed", error |-> err, files_created |-> <<>>,
   s3_url |-> "absent", local_archive |-> "absent", task_id |-> "present"]

\* the dict process_task returns at the end of its try block
CompletedRecord(files, s3url, archive) ==
  [status |-> "completed", error |-> "absent", files_created |-> files,
   s3_url |-> s3url, local_archive |-> archive, task_id |-> "present"]

\* the commands of one call of _create_local_archive, each with what it did;
\* a command that has not been run holds "no"
NoArchiveRun ==
  [tar |-> "no", check |-> "no", ls |-> "no", fb |-> "no", get |-> "no"]

NoAttempt ==
  [msg |-> 0, task |-> "none", sandbox |-> FALSE, sbx |-> "none", steps |-> <<>>, kills |-> 0,
   exec |-> "none", files |-> <<>>, arc |-> NoArchiveRun, archive |-> "None",
   up |-> "none", s3_url |-> "None",
   result |-> NoResult, exc |-> "none", failAt |-> "none",
   saved |-> "no", stored |-> NoResult, deleteCalled |-> FALSE,
   caught |-> FALSE]

\* ---------------------------------------------------------------- Init
\* required_vars of main
RequiredVars == {"SQS_QUEUE_URL", "E2B_API_KEY", "ANTHROPIC_API_KEY"}

\* The message followed over its deliveries, before the first one:
\*   pc         where the consumer is with it: "poll", "task", "save", "delete"
\*   msg        "visible" | "inflight" | "deleted"
\*   recvAt     the time of its last delivery
\*   n          the number of its deliveries
\*   status     the status of the result of the attempt in progress
\*   done       the statuses of the attempts that have ended, in order
\*   sandboxes  the number of sandboxes created for it
\*   saves      the _save_result calls that wrote a file: attempt and time
NoDelivery ==
  [pc |-> "poll", msg |-> "visible", recvAt |-> 0, n |-> 0,
   status |-> "none", done |-> <<>>, sandboxes |-> 0, saves |-> <<>>]

\* no call of a helper function
NoCall == [fn |-> "none"]

\* Spec follows the consumer; the other variables stay as they are here
\* no request was served and the preview script was not started
NoResponse == [endpoint |-> "none"]

NoPreview == [pc |-> "none"]

WebIdle ==
  /\ active_sandboxes = <<>>
  /\ cloud = <<>>
  /\ response = NoResponse
  /\ returned = {}
  /\ answered = {}
  /\ preview = NoPreview

AuxIdle ==
  /\ now = 0
  /\ disk = <<>>
  /\ rd = NoDelivery
  /\ call = NoCall
  /\ WebIdle

Init ==
  /\ variant \in Variants
  /\ s3_enabled = FALSE
  /\ probe = "none"
  /\ missing_vars \in (IF variant = "sync" THEN {{}} ELSE SUBSET RequiredVars)
  /\ bodies \in (IF variant = "sync" THEN {[m \in Msgs |-> "task"]}
                ELSE [Msgs -> BodyKinds])
  /\ qstate = [m \in Msgs |-> "visible"]
  /\ deliveries = 0
  /\ running = TRUE
  /\ pc = (IF variant = "sync" THEN "cs_start" ELSE "main")
  /\ batch = <<>>
  /\ idx = 0
  /\ recvErr = "none"
  /\ lastSleep = 0
  /\ interrupted = FALSE
  /\ att = NoAttempt
  /\ AuxIdle

\* ------------------------------------------------------------- main
\* mutant: main does not validate the environment
ConfigCompleteAlways(missing) == TRUE

\* missing_vars = [var for var in required_vars if not os.getenv(var)]
\* if missing_vars: ... sys.exit(1)
ConfigComplete(missing) == missing = {}

\* main of sqs_processor_simple.py and of sqs_e2b_processor.py: validation,
\* then the processor is built and poll_and_process is called
main ==
  /\ pc = "main"
  /\ pc' = IF ~ConfigComplete(missing_vars) THEN "exit1"
           ELSE IF variant = "simple" THEN "init" ELSE "poll"
  /\ UNCHANGED <<envVars, qstate, deliveries, running, batch, idx, recvErr,
                 lastSleep, interrupted, att>>

\* ------------------------------ SimpleE2BGenerator.__init__ (the probe)
\* what head_bucket can do: return, raise ClientError (no such bucket, access
\* denied), or raise another error of the storage client ("OtherError":
\* NoCredentialsError, EndpointConnectionError, which are BotoCoreErrors)
ProbeOutcomes == {"ok", "ClientError", "OtherError"}

\* except ClientError: log a warning, self.s3_client = None
ProbeCatches(err) == err = "ClientError"

\* SQSSimpleProcessor(...) in main builds the generator: s3_enabled = False,
\* then the probe. An error the probe's except clause does not catch leaves
\* the constructors; main logs "Failed to start processor" and sys.exit(1).
\* Before the probe, ValueError if E2B_API_KEY or ANTHROPIC_API_KEY is unset.
SimpleE2BGenerator_init ==
  /\ pc = "init"
  /\ IF missing_vars \cap {"E2B_API_KEY", "ANTHROPIC_API_KEY"} # {}
       THEN /\ pc' = "exit1"
            /\ UNCHANGED <<probe, s3_enabled>>
       ELSE \E o \in ProbeOutcomes :
              /\ probe' = o
              /\ s3_enabled' = (o = "ok")
              /\ pc' = IF o = "ok" \/ ProbeCatches(o) THEN "poll" ELSE "exit1"
  /\ UNCHANGED <<variant, missing_vars, bodies, auxVars, qstate, deliveries,
                 running, batch, idx, recvErr, lastSleep, interrupted, att>>

\* ------------------------------------------------- the poll loop (both)
Visible == {m \in Msgs : qstate[m] = "visible"}

\* the batches a receive can return: up to MaxBatch visible messages
Batches ==
  {b \in UNION {[1..n -> Visible] : n \in 1..MaxBatch} :
     \A i, j \in DOMAIN b : i < j => b[i] < b[j]}

\* except KeyboardInterrupt: self.running = False; the while test then fails
KeyboardInterruptInLoop ==
  /\ running' = FALSE
  /\ interrupted' = TRUE
  /\ pc' = "stopped"

\* mutant: no clause for a plain Exception, which then leaves the loop
AfterReceiveErrorNoCatchAll(e) ==
  IF e = "Exception" THEN "aborted" ELSE "backoff"

\* where an error raised by receive_message leads: the clauses for
\* ClientError, BotoCoreError and Exception each log and time.sleep(5)
AfterReceiveError(e) == "backoff"

\* while self.running: receive_message(...); the four except clauses
receive_message ==
  /\ pc = "poll"
  /\ running
  /\ \/ \* no messages: continue
        /\ UNCHANGED <<qstate, deliveries, running, pc, batch, idx, recvErr,
                       interrupted, att>>
     \/ \* a batch of messages
        /\ deliveries < MaxDeliveries
        /\ \E b \in Batches :
             /\ batch' = b
             /\ qstate' = [m \in Msgs |->
                            IF \E i \in DOMAIN b : b[i] = m THEN "inflight"
                            ELSE qstate[m]]
        /\ deliveries' = deliveries + 1
        /\ idx' = 1
        /\ pc' = "msg"
        /\ UNCHANGED <<running, recvErr, interrupted, att>>
     \/ \* ClientError, BotoCoreError or any other Exception
        /\ \E e \in {"ClientError", "BotoCoreError", "Exception"} :
             /\ recvErr' = e
             /\ pc' = AfterReceiveError(e)
        /\ UNCHANGED <<qstate, deliveries, running, batch, idx, interrupted, att>>
     \/ \* KeyboardInterrupt while blocked in the long poll
        /\ KeyboardInterruptInLoop
        /\ UNCHANGED <<qstate, deliveries, batch, idx, recvErr, att>>
  /\ lastSleep' = 0
  /\ UNCHANGED envVars

\* time.sleep(5) in an except clause. A KeyboardInterrupt raised inside the
\* handler is not caught by its sibling clause: it leaves poll_and_process.
backoff_sleep ==
  /\ pc = "backoff"
  /\ \/ /\ lastSleep' = BackoffSeconds
        /\ pc' = "poll"
        /\ UNCHANGED interrupted
     \/ /\ interrupted' = TRUE
        /\ pc' = "aborted"
        /\ UNCHANGED lastSleep
  /\ recvErr' = "none"
  /\ UNCHANGED <<envVars, qstate, deliveries, running, batch, idx, att>>

\* The visibility timeout of a received, undeleted message elapses. The
\* consumer observes it only at its next receive.
visibility_timeout ==
  /\ pc = "poll"
  /\ \E m \in Msgs :
       /\ qstate[m] = "inflight"
       /\ qstate' = [qstate EXCEPT ![m] = "visible"]
  /\ UNCHANGED <<envVars, deliveries, running, pc, batch, idx,
                 recvErr, lastSleep, interrupted, att>>

\* --------------------------------------------- helpers of a task attempt
\* a call of the pipeline was made and returned
StepOk(a, step) == [a EXCEPT !.steps = Append(@, step)]

\* a call raised an Exception inside the try block of process_task:
\* the except branch builds the "failed" dict with error = str(e)
StepFail(a, step, err) ==
  [a EXCEPT !.steps = Append(@, step), !.failAt = step,
            !.result = FailedRecord(err)]

\* a KeyboardInterrupt is delivered during a call inside the try block:
\* "except Exception" does not catch it, the finally block runs, and it
\* propagates to the caller
StepInterrupt(a, step) ==
  [a EXCEPT !.steps = Append(@, step), !.failAt = step, !.exc = "kbint"]

\* ------------------------------ SQSSimpleProcessor._process_message
\* json.loads(body); on JSONDecodeError the body becomes the specification
ParseSimple(kind) == IF kind = "notjson" THEN "task" ELSE kind

process_message ==
  /\ pc = "msg"
  /\ variant = "simple"
  /\ att' = [NoAttempt EXCEPT !.msg = batch[idx],
                              !.task = ParseSimple(bodies[batch[idx]])]
  /\ pc' = "pt_entry"
  /\ UNCHANGED <<envVars, qstate, deliveries, running, batch, idx,
                 recvErr, lastSleep, interrupted>>

\* ------------------------------ SimpleE2BGenerator.process_task
\* task_data.get(...) and specification[:100], before the try block:
\* AttributeError for a non-object, TypeError for a non-sliceable specification
EntryRaises(task) == task = "badtask"

process_task_entry ==
  /\ pc = "pt_entry"
  /\ IF EntryRaises(att.task)
       THEN /\ att' = [att EXCEPT !.exc = "exc", !.failAt = "entry"]
            /\ pc' = "handler"
       ELSE /\ att' = att
            /\ pc' = "pt_gen"
  /\ UNCHANGED <<envVars, qstate, deliveries, running, batch, idx,
                 recvErr, lastSleep, interrupted>>

\* mutant: the archive is built before the files are listed
PipelineArchiveFirst(step) ==
  CASE step = "generate" -> "pt_create"
    [] step = "create"   -> "pt_exec"
    [] step = "execute"  -> "pt_archive"
    [] step = "archive"  -> "pt_list"
    [] step = "collect"  -> "pt_upload"

\* the order of the calls in the try block of process_task: the position
\* after each call that returned
PipelineAfter(step) ==
  CASE step = "generate" -> "pt_create"
    [] step = "create"   -> "pt_exec"
    [] step = "execute"  -> "pt_list"
    [] step = "collect"  -> "pt_archive"
    [] step = "archive"  -> "pt_upload"

\* generated_code = self._generate_code(specification)
generate_code ==
  /\ pc = "pt_gen"
  /\ \/ /\ att' = StepOk(att, "generate")
        /\ pc' = PipelineAfter("generate")
        /\ UNCHANGED interrupted
     \/ /\ att' = StepFail(att, "generate", "GenerationError")
        /\ pc' = "pt_finally"
        /\ UNCHANGED interrupted
     \/ /\ att' = StepInterrupt(att, "generate")
        /\ pc' = "pt_finally"
        /\ interrupted' = TRUE
  /\ UNCHANGED <<envVars, qstate, deliveries, running, batch, idx,
                 recvErr, lastSleep>>

\* sandbox = Sandbox.create()
sandbox_create ==
  /\ pc = "pt_create"
  /\ \/ /\ att' = [StepOk(att, "create") EXCEPT !.sandbox = TRUE,
                                                 !.sbx = "live"]
        /\ pc' = PipelineAfter("create")
        /\ UNCHANGED interrupted
     \/ /\ att' = StepFail(att, "create", "CreateError")
        /\ pc' = "pt_finally"
        /\ UNCHANGED interrupted
     \/ /\ att' = StepInterrupt(att, "create")
        /\ pc' = "pt_finally"
        /\ interrupted' = TRUE
  /\ UNCHANGED <<envVars, qstate, deliveries, running, batch, idx,
                 recvErr, lastSleep>>

\* execution_result = self._execute_in_sandbox(sandbox, generated_code):
\* the script is written and run with timeout=30. The run returns with exit
\* code 0 ("ok"), returns with a non-zero exit code and stderr ("nonzero"),
\* or raises (timeout, transport error, an SDK that raises on non-zero exit).
execute_in_sandbox ==
  /\ pc = "pt_exec"
  /\ \/ /\ \E r \in {"ok", "nonzero"} :
             att' = [StepOk(att, "execute") EXCEPT !.exec = r]
        /\ pc' = PipelineAfter("execute")
        /\ UNCHANGED interrupted
     \/ /\ att' = StepFail(att, "execute", "ExecError")
        /\ pc' = "pt_finally"
        /\ UNCHANGED interrupted
     \/ /\ att' = StepInterrupt(att, "execute")
        /\ pc' = "pt_finally"
        /\ interrupted' = TRUE
  /\ UNCHANGED <<envVars, qstate, deliveries, running, batch, idx,
                 recvErr, lastSleep>>

\* what the find | grep -v generate.py | head -20 pipeline can print
FileLists == {<<>>, <<"/tmp/hello.py">>}

\* files = self._list_created_files(sandbox)
list_created_files ==
  /\ pc = "pt_list"
  /\ \/ /\ \E fs \in FileLists :
             att' = [StepOk(att, "collect") EXCEPT !.files = fs]
        /\ pc' = PipelineAfter("collect")
        /\ UNCHANGED interrupted
     \/ /\ att' = StepFail(att, "collect", "ListError")
        /\ pc' = "pt_finally"
        /\ UNCHANGED interrupted
     \/ /\ att' = StepInterrupt(att, "collect")
        /\ pc' = "pt_finally"
        /\ interrupted' = TRUE
  /\ UNCHANGED <<envVars, qstate, deliveries, running, batch, idx,
                 recvErr, lastSleep>>

\* ------------------------------ SimpleE2BGenerator._create_local_archive
\* what each command of _create_local_archive does if it is run:
\*   tar    the first tar command returns ("ok") or raises
\*   check  ls -la of the archive: it "exists", is "missing", or the call raises
\*   ls     the listing of /tmp names "some" file besides generate.py and the
\*          archive, names none ("empty"), or the call raises
\*   fb     the fallback tar leaves an archive ("made") or not, or raises
\*   get    makedirs, open and base64: output with exit code 0 ("ok"), no
\*          output or another exit code ("fail"), or one of them raises
TarOutcomes == {"ok", "raised"}
CheckOutcomes == {"exists", "missing", "raised"}
LsOutcomes == {"some", "empty", "raised"}
FallbackOutcomes == {"made", "notmade", "raised"}
GetOutcomes == {"ok", "fail", "raised"}

\* mutant: the fallback tar command is never run
FallbackTarRunsNever(ls) == FALSE

\* if ls_result.stdout: actual_files = [...]; if actual_files: run fallback_cmd
FallbackTarRuns(ls) == ls = "some"

\* The commands one call runs, in the order of the code, each with what it
\* did: the first tar, the check, then (check failed) the listing and (files
\* listed) the fallback tar, then the retrieval. A command that raises ends
\* the call. base64 has output only if an archive exists in the sandbox.
ArchiveRun(tar, check, ls, fb, get) ==
  LET checked == tar = "ok"
      listed == checked /\ check = "missing"
      fbRun == listed /\ FallbackTarRuns(ls)
      exists == (checked /\ check = "exists") \/ (fbRun /\ fb = "made")
      raisedBefore == \/ tar = "raised"
                      \/ checked /\ check = "raised"
                      \/ listed /\ ls = "raised"
                      \/ fbRun /\ fb = "raised"
  IN [tar |-> tar,
      check |-> IF checked THEN check ELSE "no",
      ls |-> IF listed THEN ls ELSE "no",
      fb |-> IF fbRun THEN fb ELSE "no",
      get |-> IF raisedBefore THEN "no"
              ELSE IF get = "ok" /\ ~exists THEN "fail" ELSE get]

\* some command of the call raised an Exception
ArchiveRaised(run) ==
  "raised" \in {run.tar, run.check, run.ls, run.fb, run.get}

\* mutant: no except clause around the body of _create_local_archive
ArchiveCatchesNothing(err) == FALSE

\* except Exception as e: log; return None
ArchiveCatches(err) == TRUE

\* the value _create_local_archive returns: local_archive_path when base64
\* gave the content, None otherwise
ArchiveResult(run) == IF run.get = "ok" THEN "path" ELSE "None"

\* archive_path = self._create_local_archive(sandbox, files, task_id)
create_local_archive ==
  /\ pc = "pt_archive"
  /\ \/ /\ \E tar \in TarOutcomes, check \in CheckOutcomes, ls \in LsOutcomes,
              fb \in FallbackOutcomes, get \in GetOutcomes :
             LET run == ArchiveRun(tar, check, ls, fb, get)
             IN IF ArchiveRaised(run) /\ ~ArchiveCatches("Exception")
                  THEN /\ att' = [StepFail(att, "archive", "ArchiveError")
                                    EXCEPT !.arc = run]
                       /\ pc' = "pt_finally"
                  ELSE /\ att' = [StepOk(att, "archive") EXCEPT
                                    !.arc = run,
                                    !.archive = ArchiveResult(run)]
                       /\ pc' = PipelineAfter("archive")
        /\ UNCHANGED interrupted
     \/ /\ att' = StepInterrupt(att, "archive")
        /\ pc' = "pt_finally"
        /\ interrupted' = TRUE
  /\ UNCHANGED <<envVars, qstate, deliveries, running, batch, idx,
                 recvErr, lastSleep>>

\* mutant: the upload is tried whenever there is an archive
UploadAttemptedWithoutProbe(enabled, archive) == archive # "None"

\* if self.s3_enabled and self.s3_client and archive_path
\* (s3_client is None exactly when the probe failed, i.e. s3_enabled is False)
UploadAttempted(enabled, archive) == enabled /\ archive # "None"

\* _upload_to_s3: "except ClientError" is its only handler
UploadCatches(err) == err = "ClientError"

\* what upload_file can do: succeed, find no local file (os.path.exists),
\* raise ClientError, or raise another error of the storage client
\* ("OtherError": EndpointConnectionError, S3UploadFailedError, OSError)
UploadOutcomes == {"ok", "nofile", "ClientError", "OtherError"}

\* the upload (if any) and the return of the "completed" dict; the locals of
\* the _create_local_archive call are gone, its return value is in archive
upload_to_s3 ==
  /\ pc = "pt_upload"
  /\ LET a == [att EXCEPT !.arc = NoArchiveRun]
     IN \/ /\ ~UploadAttempted(s3_enabled, a.archive)
           /\ att' = [a EXCEPT !.result =
                        CompletedRecord(a.files, "None", a.archive)]
           /\ UNCHANGED interrupted
        \/ /\ UploadAttempted(s3_enabled, a.archive)
           /\ \E o \in UploadOutcomes :
                IF o = "ok"
                  THEN att' = [StepOk(a, "upload") EXCEPT
                                 !.up = o,
                                 !.s3_url = "url",
                                 !.result = CompletedRecord(a.files, "url",
                                                            a.archive)]
                ELSE IF o = "nofile" \/ UploadCatches(o)
                  THEN att' = [StepOk(a, "upload") EXCEPT
                                 !.up = o,
                                 !.failAt = IF o = "nofile" THEN @ ELSE "upload",
                                 !.result = CompletedRecord(a.files, "None",
                                                            a.archive)]
                ELSE att' = [StepFail(a, "upload", o) EXCEPT !.up = o]
           /\ UNCHANGED interrupted
        \/ /\ UploadAttempted(s3_enabled, a.archive)
           /\ att' = StepInterrupt(a, "upload")
           /\ interrupted' = TRUE
  /\ pc' = "pt_finally"
  /\ UNCHANGED <<envVars, qstate, deliveries, running, batch, idx,
                 recvErr, lastSleep>>

\* mutant: the message is deleted before its record is written
AfterProcessMessageDeleteFirst == "delete"

\* result = self._process_message(message) is followed by
\* self._save_result(result): where the consumer goes when a result is returned
AfterProcessMessage == "save"

\* finally: if sandbox: try: sandbox.kill() except: pass
\* The bare except swallows whatever kill raises, a KeyboardInterrupt
\* delivered during kill included. Then process_task returns its dict, or the
\* exception in flight goes on to the caller.
\* mutant: kill only at the end of the try block, not in a finally
KillNeededOnSuccessOnly(a) == a.sandbox /\ a.result.status = "completed"

KillNeeded(a) == a.sandbox

KillCalled(a) == [a EXCEPT !.kills = @ + 1, !.steps = Append(@, "kill")]

\* mutant: an Exception raised by kill replaces the result by a failed one
KillRaisedFailsTask(a) ==
  KillCalled([a EXCEPT !.result = FailedRecord("KillError")])

\* kill (or close) raised an Exception: the except clause inside the finally
\* block absorbs it, the sandbox is as it was, the result is untouched
KillRaised(a) == KillCalled(a)

process_task_finally ==
  /\ pc = "pt_finally"
  /\ \/ /\ ~KillNeeded(att)
        /\ att' = att
        /\ UNCHANGED interrupted
     \/ /\ KillNeeded(att)
        /\ \/ /\ att' = KillCalled([att EXCEPT !.sbx = "killed"])
              /\ UNCHANGED interrupted
           \/ /\ att' = KillRaised(att)          \* kill raised
              /\ UNCHANGED interrupted
           \/ /\ att' = KillCalled(att)          \* interrupt swallowed
              /\ interrupted' = TRUE
  /\ pc' = IF att.exc = "none" THEN AfterProcessMessage ELSE "handler"
  /\ UNCHANGED <<envVars, qstate, deliveries, running, batch, idx,
                 recvErr, lastSleep>>

\* ------------------------------ process_sqs_message (e2b_handler.py)
\* the dict of its two except clauses: no task_id key
HandlerFailedRecord(err) ==
  [status |-> "failed", error |-> err, files_created |-> <<>>,
   s3_url |-> "absent", local_archive |-> "absent", task_id |-> "absent"]

\* the dict E2BCodeGenerator.process_task returns at the end of its try block
CompletedRecordE2B(files) ==
  [status |-> "completed", error |-> "absent", files_created |-> files,
   s3_url |-> "absent", local_archive |-> "absent", task_id |-> "present"]

\* SQSE2BProcessor._process_message calls process_sqs_message(body):
\* json.loads(message_body), then E2BCodeGenerator()
E2B_process_sqs_message ==
  /\ pc = "msg"
  /\ variant = "e2b"
  /\ IF bodies[batch[idx]] = "notjson"
       THEN /\ att' = [NoAttempt EXCEPT
                         !.msg = batch[idx],
                         !.failAt = "parse",
                         !.result = HandlerFailedRecord("Invalid JSON")]
            /\ pc' = AfterProcessMessage
       ELSE /\ att' = [NoAttempt EXCEPT !.msg = batch[idx],
                                        !.task = bodies[batch[idx]]]
            /\ pc' = "h_entry"
  /\ UNCHANGED <<envVars, qstate, deliveries, running, batch, idx, recvErr,
                 lastSleep, interrupted>>

\* E2BCodeGenerator.process_task before its try block; what it raises there
\* is caught by "except Exception" of process_sqs_message
E2B_process_task_entry ==
  /\ pc = "h_entry"
  /\ IF EntryRaises(att.task)
       THEN /\ att' = [att EXCEPT !.failAt = "entry",
                                  !.result = HandlerFailedRecord("EntryError")]
            /\ pc' = AfterProcessMessage
       ELSE /\ att' = att
            /\ pc' = "h_create"
  /\ UNCHANGED <<envVars, qstate, deliveries, running, batch, idx, recvErr,
                 lastSleep, interrupted>>

\* sandbox = self._create_sandbox(): Sandbox(), then a test run_code. If the
\* test run raises, the sandbox exists but process_task's variable is None.
E2B_create_sandbox ==
  /\ pc = "h_create"
  /\ \/ /\ att' = [StepOk(att, "create") EXCEPT !.sandbox = TRUE,
                                                 !.sbx = "live"]
        /\ pc' = "h_plan"
        /\ UNCHANGED interrupted
     \/ /\ att' = StepFail(att, "create", "CreateError")
        /\ pc' = "h_finally"
        /\ UNCHANGED interrupted
     \/ /\ att' = [StepFail(att, "create", "SetupError") EXCEPT !.sbx = "live"]
        /\ pc' = "h_finally"
        /\ UNCHANGED interrupted
     \/ /\ att' = StepInterrupt(att, "create")
        /\ pc' = "h_finally"
        /\ interrupted' = TRUE
  /\ UNCHANGED <<envVars, qstate, deliveries, running, batch, idx, recvErr,
                 lastSleep>>

\* implementation_plan = self._generate_plan(specification)
E2B_generate_plan ==
  /\ pc = "h_plan"
  /\ \/ /\ att' = StepOk(att, "generate")
        /\ pc' = "h_exec"
        /\ UNCHANGED interrupted
     \/ /\ att' = StepFail(att, "generate", "GenerationError")
        /\ pc' = "h_finally"
        /\ UNCHANGED interrupted
     \/ /\ att' = StepInterrupt(att, "generate")
        /\ pc' = "h_finally"
        /\ interrupted' = TRUE
  /\ UNCHANGED <<envVars, qstate, deliveries, running, batch, idx, recvErr,
                 lastSleep>>

\* result = self._execute_in_sandbox(sandbox, specification, plan) and the
\* return of the "completed" dict: the code is generated, run with run_code
\* (an execution error is only put in the logs), the files are listed
E2B_execute_in_sandbox ==
  /\ pc = "h_exec"
  /\ \/ /\ \E r \in {"ok", "nonzero"}, fs \in FileLists :
             att' = [StepOk(att, "execute") EXCEPT
                       !.exec = r, !.files = fs,
                       !.result = CompletedRecordE2B(fs)]
        /\ UNCHANGED interrupted
     \/ /\ att' = StepFail(att, "execute", "ExecError")
        /\ UNCHANGED interrupted
     \/ /\ att' = StepInterrupt(att, "execute")
        /\ interrupted' = TRUE
  /\ pc' = "h_finally"
  /\ UNCHANGED <<envVars, qstate, deliveries, running, batch, idx, recvErr,
                 lastSleep>>

\* finally: if sandbox: try: sandbox.close() except Exception: log
\* A KeyboardInterrupt delivered during close is not caught here.
E2B_process_task_finally ==
  /\ pc = "h_finally"
  /\ \/ /\ ~KillNeeded(att)
        /\ att' = att
        /\ pc' = IF att.exc = "none" THEN AfterProcessMessage ELSE "handler"
        /\ UNCHANGED interrupted
     \/ /\ KillNeeded(att)
        /\ \/ /\ att' = KillCalled([att EXCEPT !.sbx = "killed"])
              /\ pc' = IF att.exc = "none" THEN AfterProcessMessage ELSE "handler"
              /\ UNCHANGED interrupted
           \/ /\ att' = KillRaised(att)          \* close raised
              /\ pc' = IF att.exc = "none" THEN AfterProcessMessage ELSE "handler"
              /\ UNCHANGED interrupted
           \/ /\ att' = KillCalled([att EXCEPT !.exc = "kbint"])
              /\ pc' = "handler"
              /\ interrupted' = TRUE
  /\ UNCHANGED <<envVars, qstate, deliveries, running, batch, idx, recvErr,
                 lastSleep>>

\* ------------------- E2BClaudeCodeGenerator.process_task (e2b_claude_sync)
\* the dict it returns at the end of its try block
CompletedRecordSync(files) ==
  [status |-> "completed", error |-> "absent", files_created |-> files,
   s3_url |-> "absent", local_archive |-> "absent", task_id |-> "present"]

\* test_simple: generator.process_task(test_task) with a valid task
Sync_test_simple ==
  /\ pc = "cs_start"
  /\ att' = [NoAttempt EXCEPT !.task = "task"]
  /\ pc' = "cs_create"
  /\ UNCHANGED <<envVars, qstate, deliveries, running, batch, idx, recvErr,
                 lastSleep, interrupted>>

\* sandbox = self._create_sandbox(): Sandbox.create(), then node --version
\* and the install commands. If one of these raises, the sandbox exists but
\* process_task's variable is None.
Sync_create_sandbox ==
  /\ pc = "cs_create"
  /\ \/ /\ att' = [StepOk(att, "create") EXCEPT !.sandbox = TRUE,
                                                 !.sbx = "live"]
        /\ pc' = "cs_exec"
        /\ UNCHANGED interrupted
     \/ /\ att' = StepFail(att, "create", "CreateError")
        /\ pc' = "cs_finally"
        /\ UNCHANGED interrupted
     \/ /\ att' = [StepFail(att, "create", "SetupError") EXCEPT !.sbx = "live"]
        /\ pc' = "cs_finally"
        /\ UNCHANGED interrupted
     \/ /\ att' = StepInterrupt(att, "create")
        /\ pc' = "cs_finally"
        /\ interrupted' = TRUE
  /\ UNCHANGED <<envVars, qstate, deliveries, running, batch, idx, recvErr,
                 lastSleep>>

\* result = self._execute_claude_code(sandbox, specification): the code is
\* generated, written to /tmp/generate.py and run with timeout=30
Sync_execute_claude_code ==
  /\ pc = "cs_exec"
  /\ \/ /\ \E r \in {"ok", "nonzero"} :
             att' = [StepOk(StepOk(att, "generate"), "execute") EXCEPT
                       !.exec = r]
        /\ pc' = "cs_list"
        /\ UNCHANGED interrupted
     \/ /\ att' = StepFail(att, "generate", "GenerationError")
        /\ pc' = "cs_finally"
        /\ UNCHANGED interrupted
     \/ /\ att' = StepFail(StepOk(att, "generate"), "execute", "ExecError")
        /\ pc' = "cs_finally"
        /\ UNCHANGED interrupted
     \/ /\ att' = StepInterrupt(StepOk(att, "generate"), "execute")
        /\ pc' = "cs_finally"
        /\ interrupted' = TRUE
  /\ UNCHANGED <<envVars, qstate, deliveries, running, batch, idx, recvErr,
                 lastSleep>>

\* files = self._list_created_files(sandbox)
Sync_list_created_files ==
  /\ pc = "cs_list"
  /\ \/ /\ \E fs \in FileLists :
             att' = [StepOk(att, "collect") EXCEPT !.files = fs]
        /\ pc' = "cs_main"
        /\ UNCHANGED interrupted
     \/ /\ att' = StepFail(att, "collect", "ListError")
        /\ pc' = "cs_finally"
        /\ UNCHANGED interrupted
     \/ /\ att' = StepInterrupt(att, "collect")
        /\ pc' = "cs_finally"
        /\ interrupted' = TRUE
  /\ UNCHANGED <<envVars, qstate, deliveries, running, batch, idx, recvErr,
                 lastSleep>>

\* main_content = self._get_main_file_content(sandbox, files) and the return
\* of the "completed" dict; every read is wrapped in try/except: pass
Sync_get_main_file_content ==
  /\ pc = "cs_main"
  /\ att' = [StepOk(att, "read_main") EXCEPT
               !.result = CompletedRecordSync(att.files)]
  /\ pc' = "cs_finally"
  /\ UNCHANGED <<envVars, qstate, deliveries, running, batch, idx, recvErr,
                 lastSleep, interrupted>>

\* finally: if sandbox: try: sandbox.kill() except Exception: log
\* then back in test_simple ("done"), or the KeyboardInterrupt goes on
Sync_process_task_finally ==
  /\ pc = "cs_finally"
  /\ \/ /\ ~KillNeeded(att)
        /\ att' = att
        /\ pc' = IF att.exc = "none" THEN "done" ELSE "aborted"
        /\ UNCHANGED interrupted
     \/ /\ KillNeeded(att)
        /\ \/ /\ att' = KillCalled([att EXCEPT !.sbx = "killed"])
              /\ pc' = IF att.exc = "none" THEN "done" ELSE "aborted"
              /\ UNCHANGED interrupted
           \/ /\ att' = KillRaised(att)          \* kill raised
              /\ pc' = IF att.exc = "none" THEN "done" ELSE "aborted"
              /\ UNCHANGED interrupted
           \/ /\ att' = KillCalled([att EXCEPT !.exc = "kbint"])
              /\ pc' = "aborted"
              /\ interrupted' = TRUE
  /\ UNCHANGED <<envVars, qstate, deliveries, running, batch, idx, recvErr,
                 lastSleep>>

\* ----------------------------------- the for loop body of the consumer
\* An exception leaves _process_message: "except Exception" of the for loop
\* logs it and goes on; a KeyboardInterrupt reaches the outer clause.
except_clause ==
  /\ pc = "handler"
  /\ IF att.exc = "kbint"
       THEN /\ running' = FALSE
            /\ pc' = "stopped"
            /\ att' = att
       ELSE /\ att' = [att EXCEPT !.caught = TRUE]
            /\ pc' = "next"
            /\ UNCHANGED running
  /\ UNCHANGED <<envVars, qstate, deliveries, batch, idx,
                 recvErr, lastSleep, interrupted>>

\* mutant: the message is deleted whatever the status
ShouldDeleteAlways(result) == TRUE

\* SQSSimpleProcessor:
\*   if result.get('status') == 'completed': self._delete_message(...)
ShouldDelete(result) == result.status = "completed"

\* SQSE2BProcessor: self._delete_message(...) follows _save_result
\* unconditionally, whatever the status of the result
ShouldDeleteE2B(result) == TRUE

DeleteDecision(result) ==
  IF variant = "simple" THEN ShouldDelete(result) ELSE ShouldDeleteE2B(result)

\* the metadata dict SQSSimpleProcessor._save_result writes: task_id, status,
\* specification, s3_url, files_created, timestamp and message_id, each read
\* with result.get (None when the key is missing); no other key of the result
Metadata(result) ==
  [status |-> result.status,
   error |-> "absent",
   files_created |-> result.files_created,
   s3_url |-> IF result.s3_url = "absent" THEN "None" ELSE result.s3_url,
   local_archive |-> "absent",
   task_id |-> IF result.task_id = "absent" THEN "None" ELSE result.task_id]

\* what json.dump puts in the file: the metadata dict in SQSSimpleProcessor,
\* the whole result in SQSE2BProcessor
StoredRecord(result) ==
  IF variant = "simple" THEN Metadata(result) ELSE result

\* self._save_result(result): one file per call; writing can raise OSError
save_result ==
  /\ pc = "save"
  /\ \/ /\ att' = [att EXCEPT !.saved = "ok",
                              !.stored = StoredRecord(att.result)]
        /\ pc' = IF DeleteDecision(att.result) THEN "delete" ELSE "next"
        /\ UNCHANGED <<running, interrupted>>
     \/ /\ att' = [att EXCEPT !.saved = "raised", !.caught = TRUE]
        /\ pc' = "next"
        /\ UNCHANGED <<running, interrupted>>
     \/ /\ att' = [att EXCEPT !.exc = "kbint"]
        /\ KeyboardInterruptInLoop
  /\ UNCHANGED <<envVars, qstate, deliveries, batch, idx, recvErr, lastSleep>>

\* self._delete_message(receipt_handle): ClientError is caught inside it,
\* any other Exception by the for loop's except clause
delete_message ==
  /\ pc = "delete"
  /\ \/ /\ qstate' = [qstate EXCEPT ![att.msg] = "deleted"]
        /\ att' = [att EXCEPT !.deleteCalled = TRUE]
        /\ pc' = "next"
        /\ UNCHANGED <<running, interrupted>>
     \/ /\ att' = [att EXCEPT !.deleteCalled = TRUE]     \* ClientError
        /\ pc' = "next"
        /\ UNCHANGED <<qstate, running, interrupted>>
     \/ /\ att' = [att EXCEPT !.deleteCalled = TRUE, !.caught = TRUE]
        /\ pc' = "next"
        /\ UNCHANGED <<qstate, running, interrupted>>
     \/ /\ att' = [att EXCEPT !.exc = "kbint"]
        /\ KeyboardInterruptInLoop
        /\ UNCHANGED qstate
  /\ UNCHANGED <<envVars, deliveries, batch, idx, recvErr, lastSleep>>

\* the for loop takes the next message of the batch, or the while loop polls
next_message ==
  /\ pc = "next"
  /\ IF idx < Len(batch)
       THEN idx' = idx + 1 /\ pc' = "msg"
       ELSE idx' = 0 /\ pc' = "poll"
  /\ batch' = IF idx < Len(batch) THEN batch ELSE <<>>
  /\ att' = NoAttempt
  /\ UNCHANGED <<envVars, qstate, deliveries, running, recvErr, lastSleep,
                 interrupted>>

\* ------------------------------------------------------- specification
Next ==
  \/ main
  \/ SimpleE2BGenerator_init
  \/ receive_message
  \/ backoff_sleep
  \/ visibility_timeout
  \/ process_message
  \/ process_task_entry
  \/ generate_code
  \/ sandbox_create
  \/ execute_in_sandbox
  \/ list_created_files
  \/ create_local_archive
  \/ upload_to_s3
  \/ process_task_finally
  \/ E2B_process_sqs_message
  \/ E2B_process_task_entry
  \/ E2B_create_sandbox
  \/ E2B_generate_plan
  \/ E2B_execute_in_sandbox
  \/ E2B_process_task_finally
  \/ Sync_test_simple
  \/ Sync_create_sandbox
  \/ Sync_execute_claude_code
  \/ Sync_list_created_files
  \/ Sync_get_main_file_content
  \/ Sync_process_task_finally
  \/ except_clause
  \/ save_result
  \/ delete_message
  \/ next_message

Spec == Init /\ [][Next]_vars

\* =========================================== one message, many deliveries
\* SpecRedelivery follows one message with an explicit task_id through the
\* deliveries of SQSSimpleProcessor and records the files its attempts write.
\* An attempt is one step here; its inside is what Spec follows.
MaxClock == 181       \* seconds followed after the first delivery
MaxAttempts == 2      \* deliveries of the followed message

\* VisibilityTimeout=180 of receive_message
VisibilityTimeout == 180

\* the task_id of the followed message
TaskId == "t1"

\* mutant: the file name holds no timestamp
RecordPathNoTimestamp(task_id, ts) ==
  [dir |-> "results", task_id |-> task_id, ts |-> 0]

\* filename = f"{results_dir}/{task_id}_{timestamp}_metadata.json"
\* with timestamp = int(time.time())
RecordPath(task_id, ts) ==
  [dir |-> "results", task_id |-> task_id, ts |-> ts]

\* local_archive_path = f"archives/{archive_name}", archive_name =
\* f"{task_id}.tar.gz"
LocalArchivePath(task_id) ==
  [dir |-> "archives", task_id |-> task_id, ts |-> 0]

\* s3_key = f"{task_id}.tar.gz"
S3Key(task_id) ==
  [dir |-> "s3", task_id |-> task_id, ts |-> 0]

\* open(path, 'w' or 'wb') and upload_file: the file is created or replaced
WriteFile(d, path, n) ==
  [q \in (DOMAIN d) \cup {path} |-> IF q = path THEN n ELSE d[q]]

\* How an attempt can end, by what it left behind:
\*   sandbox  Sandbox.create returned
\*   opened   _create_local_archive reached open(local_archive_path, 'wb')
\*   uploaded upload_file returned
AttemptOutcomes ==
  {[sandbox |-> FALSE, opened |-> FALSE, uploaded |-> FALSE, status |-> "failed"],
   [sandbox |-> TRUE, opened |-> FALSE, uploaded |-> FALSE, status |-> "failed"],
   [sandbox |-> TRUE, opened |-> TRUE, uploaded |-> FALSE, status |-> "failed"],
   [sandbox |-> TRUE, opened |-> FALSE, uploaded |-> FALSE, status |-> "completed"],
   [sandbox |-> TRUE, opened |-> TRUE, uploaded |-> FALSE, status |-> "completed"],
   [sandbox |-> TRUE, opened |-> TRUE, uploaded |-> TRUE, status |-> "completed"]}

\* the main variables do not move in SpecRedelivery and SpecCalls
MainIdle ==
  /\ variant = "simple"
  /\ s3_enabled = FALSE
  /\ probe = "none"
  /\ missing_vars = {}
  /\ bodies = [m \in Msgs |-> "task"]
  /\ qstate = [m \in Msgs |-> "visible"]
  /\ deliveries = 0
  /\ running = TRUE
  /\ pc = "main"
  /\ batch = <<>>
  /\ idx = 0
  /\ recvErr = "none"
  /\ lastSleep = 0
  /\ interrupted = FALSE
  /\ att = NoAttempt

InitRedelivery ==
  /\ MainIdle
  /\ now = 0
  /\ disk = <<>>
  /\ rd = NoDelivery
  /\ call = NoCall
  /\ WebIdle

\* a second passes
rd_tick ==
  /\ rd.n > 0
  /\ now < MaxClock
  /\ now' = now + 1
  /\ UNCHANGED <<mainVars, webVars, disk, rd, call>>

\* receive_message returns the followed message
rd_receive_message ==
  /\ rd.pc = "poll"
  /\ rd.msg = "visible"
  /\ rd.n < MaxAttempts
  /\ rd' = [rd EXCEPT !.pc = "task", !.msg = "inflight", !.recvAt = now,
                      !.n = @ + 1, !.status = "none"]
  /\ UNCHANGED <<mainVars, webVars, now, disk, call>>

\* the visibility timeout of the delivery elapses, wherever the consumer is
rd_visibility_timeout ==
  /\ rd.msg = "inflight"
  /\ now >= rd.recvAt + VisibilityTimeout
  /\ rd' = [rd EXCEPT !.msg = "visible"]
  /\ UNCHANGED <<mainVars, webVars, now, disk, call>>

\* mutant: a message whose task already completed is not processed again
StartsAttemptUnlessCompleted(done) ==
  \A i \in DOMAIN done : done[i] # "completed"

\* for message in messages: result = self._process_message(message)
\* whatever was done for earlier deliveries: nothing of them is looked up
StartsAttempt(done) == TRUE

\* _process_message: generator.process_task(task_data), with the files it
\* writes outside the sandbox
rd_process_message ==
  /\ rd.pc = "task"
  /\ IF StartsAttempt(rd.done)
       THEN \E o \in AttemptOutcomes :
              /\ rd' = [rd EXCEPT
                          !.pc = "save",
                          !.status = o.status,
                          !.done = Append(@, o.status),
                          !.sandboxes = IF o.sandbox THEN @ + 1 ELSE @]
              /\ disk' =
                   LET d1 == IF o.opened
                               THEN WriteFile(disk, LocalArchivePath(TaskId), rd.n)
                               ELSE disk
                   IN IF o.uploaded THEN WriteFile(d1, S3Key(TaskId), rd.n)
                      ELSE d1
       ELSE /\ rd' = [rd EXCEPT !.pc = "delete", !.status = "completed"]
            /\ UNCHANGED disk
  /\ UNCHANGED <<mainVars, webVars, now, call>>

\* _save_result: the metadata file is written (or the write raises), then
\* the status test of poll_and_process
rd_save_result ==
  /\ rd.pc = "save"
  /\ \/ /\ disk' = WriteFile(disk, RecordPath(TaskId, now), rd.n)
        /\ rd' = [rd EXCEPT
                    !.saves = Append(@, [n |-> rd.n, ts |-> now]),
                    !.pc = IF ShouldDelete([status |-> rd.status])
                             THEN "delete" ELSE "poll"]
     \/ /\ rd' = [rd EXCEPT !.pc = "poll"]
        /\ UNCHANGED disk
  /\ UNCHANGED <<mainVars, webVars, now, call>>

\* _delete_message: the message is deleted, or ClientError is logged
rd_delete_message ==
  /\ rd.pc = "delete"
  /\ \/ rd' = [rd EXCEPT !.pc = "poll", !.msg = "deleted"]
     \/ rd' = [rd EXCEPT !.pc = "poll"]
  /\ UNCHANGED <<mainVars, webVars, now, disk, call>>

NextRedelivery ==
  \/ rd_tick
  \/ rd_receive_message
  \/ rd_visibility_timeout
  \/ rd_process_message
  \/ rd_save_result
  \/ rd_delete_message

SpecRedelivery == InitRedelivery /\ [][NextRedelivery]_vars

\* ======================================================= helper functions
\* One call of a helper function on its own: the arguments are drawn from
\* bounded sets, the result is computed as the code computes it, and call
\* holds both.
\* ------------------------------------------------------------------ text
\* A text (a Python str, the stdout of a command, a path) is the sequence of
\* its characters.
Min(S) == CHOOSE x \in S : \A y \in S : x <= y

Max(S) == CHOOSE x \in S : \A y \in S : x >= y

Range(s) == {s[i] : i \in DOMAIN s}

RECURSIVE Concat(_)
\* the texts of a sequence one after the other
Concat(ss) == IF ss = <<>> THEN <<>> ELSE Head(ss) \o Concat(Tail(ss))

\* str.startswith
StartsWith(s, p) == Len(p) <= Len(s) /\ SubSeq(s, 1, Len(p)) = p

\* str.endswith
EndsWith(s, p) ==
  Len(p) <= Len(s) /\ SubSeq(s, Len(s) - Len(p) + 1, Len(s)) = p

\* p in s (Python substring test)
Contains(s, p) ==
  \E i \in 1..(Len(s) - Len(p) + 1) : SubSeq(s, i, i + Len(p) - 1) = p

RECURSIVE split(_, _)
\* str.split(c): the pieces between the occurrences of character c
split(s, c) ==
  IF \A i \in DOMAIN s : s[i] # c
  THEN <<s>>
  ELSE LET i == Min({j \in DOMAIN s : s[j] = c})
       IN <<SubSeq(s, 1, i - 1)>> \o split(SubSeq(s, i + 1, Len(s)), c)

Whitespace == {" ", "\t", "\n"}

\* str.strip(): without leading and trailing whitespace
strip(s) ==
  LET keep == {i \in DOMAIN s : s[i] \notin Whitespace}
  IN IF keep = {} THEN <<>> ELSE SubSeq(s, Min(keep), Max(keep))

\* the lines a line-oriented command (grep, head) reads from its input
ShellLines(text) ==
  LET pieces == split(text, "\n")
  IN IF pieces[Len(pieces)] = <<>>
     THEN SubSeq(pieces, 1, Len(pieces) - 1)
     ELSE pieces

\* the lines as a command prints them, each ended by a newline
PrintLines(lines) == Concat([i \in DOMAIN lines |-> lines[i] \o <<"\n">>])

\* the regular expression re matches s at position i; in re the character
\* "." matches any character
MatchesAt(s, i, re) ==
  /\ i + Len(re) - 1 <= Len(s)
  /\ \A k \in DOMAIN re : re[k] = "." \/ s[i + k - 1] = re[k]

\* grep -v re: the lines in which re matches nowhere
grep_v(lines, re) ==
  SelectSeq(lines, LAMBDA l : ~ \E i \in DOMAIN l : MatchesAt(l, i, re))

\* head -n
head(lines, n) == SubSeq(lines, 1, IF Len(lines) < n THEN Len(lines) ELSE n)

\* the characters of the paths below, in the order of their codes
Alphabet ==
  <<"\n", ".", "/", "a", "b", "c", "d", "e", "f", "g", "h", "i", "j", "k",
    "l", "m", "n", "o", "p", "q", "r", "s", "t", "u", "v", "w", "x", "y",
    "z">>

CharRank(c) == CHOOSE i \in DOMAIN Alphabet : Alphabet[i] = c

RECURSIVE LexLess(_, _)
\* a < b for two Python strings (lexicographic by character code)
LexLess(a, b) ==
  IF b = <<>> THEN FALSE
  ELSE IF a = <<>> THEN TRUE
  ELSE IF a[1] = b[1] THEN LexLess(Tail(a), Tail(b))
  ELSE CharRank(a[1]) < CharRank(b[1])

\* ------------------------------------------------- _list_created_files
\* "/tmp/", the working directory of the generation script
Tmp == <<"/", "t", "m", "p", "/">>

\* the -name patterns of the find command: '*.py', '*.js', ...
Extensions ==
  { <<".", "p", "y">>, <<".", "j", "s">>, <<".", "j", "s", "x">>,
    <<".", "t", "s", "x">>, <<".", "h", "t", "m", "l">>,
    <<".", "c", "s", "s">>, <<".", "j", "s", "o", "n">>, <<".", "m", "d">>,
    <<".", "t", "x", "t">> }

\* head -20
HeadCount == 20

\* the regular expressions of the grep -v commands
ReGeneratePy == <<"g", "e", "n", "e", "r", "a", "t", "e", ".", "p", "y">>

ReNodeModules ==
  <<"n", "o", "d", "e", "_", "m", "o", "d", "u", "l", "e", "s">>

ReGit == <<".", "g", "i", "t">>

\* the last component of a path
basename(p) ==
  LET slashes == {i \in DOMAIN p : p[i] = "/"}
  IN IF slashes = {} THEN p ELSE SubSeq(p, Max(slashes) + 1, Len(p))

\* find /tmp -type f \( -name '*.py' -o ... \): -name tests the last
\* component of the path
FindPrints(p) ==
  StartsWith(p, Tmp) /\ \E e \in Extensions : EndsWith(basename(p), e)

\* the output of find over the files fs of the sandbox, which find visits
\* in the order of the directory (fs is that order); nothing sorts it
find(fs) == PrintLines(SelectSeq(fs, FindPrints))

\* the pipeline of the command, and the parsing of its stdout
created_files(v, fs) ==
  LET found  == ShellLines(find(fs))
      kept   == IF v = "sync"
                THEN grep_v(grep_v(found, ReNodeModules), ReGit)
                ELSE found
      lines  == head(grep_v(kept, ReGeneratePy), HeadCount)
      stdout == PrintLines(lines)
      pieces == split(strip(stdout), "\n")
  IN IF stdout = <<>>
     THEN <<>>
     ELSE SelectSeq([i \in DOMAIN pieces |-> strip(pieces[i])],
                    LAMBDA f : f # <<>>)

\* the files of a sandbox: up to NumFiles files /tmp/a.py, /tmp/b.txt,
\* /tmp/c.py, ... in one of two directory orders, and before them some of
\* the extra files: the generation script, a log file, a file whose name
\* holds a newline, and the three files defined below
NumFiles == 21

Letters ==
  <<"a", "b", "c", "d", "e", "f", "g", "h", "i", "j", "k", "l", "m", "n",
    "o", "p", "q", "r", "s", "t", "u", "v", "w", "x", "y", "z">>

Named(i) ==
  Tmp \o <<Letters[i]>> \o
    (IF i % 2 = 1 THEN <<".", "p", "y">> ELSE <<".", "t", "x", "t">>)

GeneratePy == Tmp \o <<"g", "e", "n", "e", "r", "a", "t", "e", ".", "p", "y">>

LogFile == Tmp \o <<"r", "u", "n", ".", "l", "o", "g">>

NewlineFile == Tmp \o <<"n", "\n", "o", ".", "p", "y">>

Ascending(n) == [i \in 1..n |-> Named(i)]

Descending(n) == [i \in 1..n |-> Named(n + 1 - i)]

\* a file the script may well create: its name holds that of the script
RegeneratePy ==
  Tmp \o <<"r", "e", "g", "e", "n", "e", "r", "a", "t", "e", ".", "p", "y">>

\* a file whose name holds "git" after some character
DigitPy == Tmp \o <<"d", "i", "g", "i", "t", ".", "p", "y">>

\* a file inside a .git directory
GitFile == Tmp \o <<".", "g", "i", "t", "/", "c", ".", "m", "d">>

ExtraFiles ==
  <<GeneratePy, LogFile, NewlineFile, RegeneratePy, DigitPy, GitFile>>

\* at most MaxExtras of the extra files are in a sandbox
MaxExtras == 2

FileSystems ==
  { SelectSeq(ExtraFiles, LAMBDA f : f \in X) \o named :
    X \in {Y \in SUBSET Range(ExtraFiles) : Cardinality(Y) <= MaxExtras},
    named \in {Ascending(n) : n \in 0..NumFiles}
                \cup {Descending(n) : n \in 0..NumFiles} }

Call_list_created_files ==
  /\ call = NoCall
  /\ \E v \in {"simple", "sync"}, fs \in FileSystems :
       call' = [fn |-> "_list_created_files", variant |-> v, fs |-> fs,
                files |-> created_files(v, fs)]
  /\ UNCHANGED <<mainVars, webVars, now, disk, rd>>

\* ------------------------------------------------ _get_main_file_content
\* in e2b_claude_sync.py ("sync") and in e2b_claude_handler.py ("handler")
main_candidates(v) ==
  IF v = "sync"
  THEN << <<"/", "t", "m", "p", "/", "m", "a", "i", "n", ".", "p", "y">>,
          <<"/", "t", "m", "p", "/", "a", "p", "p", ".", "p", "y">>,
          <<"/", "t", "m", "p", "/", "i", "n", "d", "e", "x", ".", "j", "s">>,
          <<"/", "t", "m", "p", "/", "A", "p", "p", ".", "j", "s", "x">>,
          <<"/", "t", "m", "p", "/", "A", "p", "p", ".", "t", "s", "x">>,
          <<"/", "t", "m", "p", "/", "C", "a", "l", "c", "u", "l", "a", "t", "o", "r", ".", "j", "s", "x">>,
          <<"/", "t", "m", "p", "/", "i", "n", "d", "e", "x", ".", "h", "t", "m", "l">> >>
  ELSE << <<"m", "a", "i", "n", ".", "p", "y">>,
          <<".", "/", "m", "a", "i", "n", ".", "p", "y">>,
          <<"a", "p", "p", ".", "p", "y">>,
          <<".", "/", "a", "p", "p", ".", "p", "y">>,
          <<"i", "n", "d", "e", "x", ".", "j", "s">>,
          <<".", "/", "i", "n", "d", "e", "x", ".", "j", "s">>,
          <<"i", "n", "d", "e", "x", ".", "h", "t", "m", "l">>,
          <<".", "/", "i", "n", "d", "e", "x", ".", "h", "t", "m", "l">> >>

\* the suffixes of the second loop: file.endswith((...))
SourceSuffixes(v) ==
  IF v = "sync"
  THEN { <<".", "p", "y">>, <<".", "j", "s">>, <<".", "j", "s", "x">>,
         <<".", "t", "s", "x">>, <<".", "h", "t", "m", "l">> }
  ELSE { <<".", "p", "y">>, <<".", "j", "s">> }

\* str.lstrip(chars): without the leading characters that are in chars
lstrip(s, chars) ==
  LET keep == {i \in DOMAIN s : s[i] \notin chars}
  IN IF keep = {} THEN <<>> ELSE SubSeq(s, Min(keep), Len(s))

\* any(candidate in f or f.endswith(candidate.lstrip('./')) for f in files)
CandidateMatches(candidate, files) ==
  \E i \in DOMAIN files :
    \/ Contains(files[i], candidate)
    \/ EndsWith(files[i], lstrip(candidate, {".", "/"}))

\* the file a path names: cat runs in the working directory, where main.py
\* and ./main.py are the same file
FileOf(v, p) ==
  IF v = "handler" /\ ~StartsWith(p, <<".", "/">>) THEN <<".", "/">> \o p ELSE p

\* the content of a file that has some
ContentOf(f) == <<"#">> \o f

\* sandbox.filesystem.read(p) ("sync") or cat p ("handler") in a sandbox sb
\* that maps each of its files to "full", "empty" or "error" (the file has
\* content but the read fails): ok is no exception / exit code 0
ReadFile(v, sb, p) ==
  LET f == FileOf(v, p)
  IN IF f \in DOMAIN sb /\ sb[f] = "full"
     THEN [ok |-> TRUE, content |-> ContentOf(f)]
     ELSE IF f \in DOMAIN sb /\ sb[f] = "empty"
     THEN [ok |-> TRUE, content |-> <<>>]
     ELSE [ok |-> FALSE, content |-> <<>>]

\* the test under which the first loop returns what it read
CandidateAcceptedWhenRead(r) == r.ok

CandidateAccepted(r) == r.ok /\ r.content # <<>>

\* the test under which the second loop returns what it read: `if content`
\* in e2b_claude_sync.py, `if result.exit_code == 0` in e2b_claude_handler.py
FileAccepted(v, r) == IF v = "sync" THEN r.ok /\ r.content # <<>> ELSE r.ok

NotFound == [found |-> FALSE, content |-> <<>>]

RECURSIVE TryCandidates(_, _, _, _)
\* for candidate in main_candidates: ...
TryCandidates(v, sb, files, cands) ==
  IF cands = <<>> THEN NotFound
  ELSE LET r == ReadFile(v, sb, Head(cands))
       IN IF CandidateMatches(Head(cands), files) /\ CandidateAccepted(r)
          THEN [found |-> TRUE, content |-> r.content]
          ELSE TryCandidates(v, sb, files, Tail(cands))

RECURSIVE TryFiles(_, _, _)
\* for file in files: ...
TryFiles(v, sb, rest) ==
  IF rest = <<>> THEN NotFound
  ELSE LET r == ReadFile(v, sb, Head(rest))
       IN IF (\E e \in SourceSuffixes(v) : EndsWith(Head(rest), e))
               /\ FileAccepted(v, r)
          THEN [found |-> TRUE, content |-> r.content]
          ELSE TryFiles(v, sb, Tail(rest))

get_main_file_content(v, sb, files) ==
  LET c == TryCandidates(v, sb, files, main_candidates(v))
  IN IF c.found THEN c.content ELSE TryFiles(v, sb, files).content

\* the files of a sandbox, by variant: two main-file names, a file in a
\* directory whose path ends like the first main-file name, a source file
\* that is no main file, and a file that is no source file
KnownFiles(v) ==
  IF v = "sync"
  THEN { <<"/", "t", "m", "p", "/", "m", "a", "i", "n", ".", "p", "y">>,
         <<"/", "t", "m", "p", "/", "a", "p", "p", ".", "p", "y">>,
         <<"/", "t", "m", "p", "/", "o", "l", "d", "/", "t", "m", "p", "/", "m", "a", "i", "n", ".", "p", "y">>,
         <<"/", "t", "m", "p", "/", "u", "t", "i", "l", ".", "p", "y">>,
         <<"/", "t", "m", "p", "/", "n", "o", "t", "e", "s", ".", "m", "d">> }
  ELSE { <<".", "/", "m", "a", "i", "n", ".", "p", "y">>,
         <<".", "/", "a", "p", "p", ".", "p", "y">>,
         <<".", "/", "s", "r", "c", "/", "m", "a", "i", "n", ".", "p", "y">>,
         <<".", "/", "u", "t", "i", "l", ".", "p", "y">>,
         <<".", "/", "n", "o", "t", "e", "s", ".", "m", "d">> }

\* a file list has at most MaxListed entries
MaxListed == 2

ListedFiles(v) ==
  { l \in UNION {[1..n -> KnownFiles(v)] : n \in 0..MaxListed} :
      \A i, j \in DOMAIN l : i # j => l[i] # l[j] }

Sandboxes(v) ==
  UNION { [S -> {"full", "empty", "error"}] : S \in SUBSET KnownFiles(v) }

Call_get_main_file_content ==
  /\ call = NoCall
  /\ \E v \in {"sync", "handler"} :
       \E files \in ListedFiles(v), sb \in Sandboxes(v) :
         /\ Range(files) \subseteq DOMAIN sb
         /\ call' = [fn |-> "_get_main_file_content", variant |-> v,
                     files |-> files, sb |-> sb,
                     content |-> get_main_file_content(v, sb, files)]
  /\ UNCHANGED <<mainVars, webVars, now, disk, rd>>

\* ----------------------- the download of the archive (_create_local_archive)
\* bytes are the numbers 0..255; the 64 digits of base64 in their order
B64Digits ==
  <<"A", "B", "C", "D", "E", "F", "G", "H", "I", "J", "K", "L", "M", "N",
    "O", "P", "Q", "R", "S", "T", "U", "V", "W", "X", "Y", "Z",
    "a", "b", "c", "d", "e", "f", "g", "h", "i", "j", "k", "l", "m", "n",
    "o", "p", "q", "r", "s", "t", "u", "v", "w", "x", "y", "z",
    "0", "1", "2", "3", "4", "5", "6", "7", "8", "9", "+", "/">>

\* the digit of a value 0..63, and the value of a digit
B64Digit(n) == B64Digits[n + 1]

B64Value(c) == (CHOOSE i \in DOMAIN B64Digits : B64Digits[i] = c) - 1

\* the base64 command breaks its output into lines of 76 characters
WrapColumn == 76

RECURSIVE B64Encode(_)
\* three bytes become four digits; one or two last bytes are padded with "="
B64Encode(bytes) ==
  IF bytes = <<>> THEN <<>>
  ELSE IF Len(bytes) = 1
  THEN <<B64Digit(bytes[1] \div 4), B64Digit((bytes[1] % 4) * 16), "=", "=">>
  ELSE IF Len(bytes) = 2
  THEN <<B64Digit(bytes[1] \div 4),
         B64Digit((bytes[1] % 4) * 16 + bytes[2] \div 16),
         B64Digit((bytes[2] % 16) * 4), "=">>
  ELSE <<B64Digit(bytes[1] \div 4),
         B64Digit((bytes[1] % 4) * 16 + bytes[2] \div 16),
         B64Digit((bytes[2] % 16) * 4 + bytes[3] \div 64),
         B64Digit(bytes[3] % 64)>>
       \o B64Encode(SubSeq(bytes, 4, Len(bytes)))

RECURSIVE Wrap(_)
\* lines of WrapColumn characters, each ended by a newline
Wrap(text) ==
  IF text = <<>> THEN <<>>
  ELSE IF Len(text) <= WrapColumn THEN text \o <<"\n">>
  ELSE SubSeq(text, 1, WrapColumn) \o <<"\n">>
         \o Wrap(SubSeq(text, WrapColumn + 1, Len(text)))

\* the stdout of `base64 /tmp/{task_id}.tar.gz` for a file with these bytes
base64_stdout(bytes) == Wrap(B64Encode(bytes))

RECURSIVE B64DecodeDigits(_)
\* four digits become three bytes; at the end two digits are one byte and
\* three digits are two bytes
B64DecodeDigits(ds) ==
  IF Len(ds) < 2 THEN <<>>
  ELSE LET v == [i \in 1..4 |-> IF i <= Len(ds) THEN B64Value(ds[i]) ELSE 0]
           three == << v[1] * 4 + v[2] \div 16,
                       (v[2] % 16) * 16 + v[3] \div 4,
                       (v[3] % 4) * 64 + v[4] >>
       IN IF Len(ds) >= 4
          THEN three \o B64DecodeDigits(SubSeq(ds, 5, Len(ds)))
          ELSE SubSeq(three, 1, Len(ds) - 1)

\* base64.b64decode(text): characters that are no digits (the newlines) are
\* discarded, the padding ends the data
b64decode(text) ==
  B64DecodeDigits(SelectSeq(text, LAMBDA c : c \in Range(B64Digits)))

\* the same bytes taken from stdout as text: a byte that is no ASCII
\* character comes back as the replacement character "?"
DownloadAsText(bytes) ==
  [i \in DOMAIN bytes |-> IF bytes[i] < 128 THEN bytes[i] ELSE 63]

\* what the code writes to archives/{task_id}.tar.gz for an archive with
\* these bytes in the sandbox: nothing when stdout is empty
Download(bytes) ==
  LET stdout == base64_stdout(bytes)
  IN IF stdout # <<>> THEN b64decode(stdout) ELSE <<>>

\* the archives: every sequence of up to MaxBytes sample bytes, and three
\* long ones around the length whose encoding fills one line of base64
MaxBytes == 4

ByteSamples == {0, 10, 65, 255}

LongLengths == {56, 57, 58}

LongArchive(n) == [i \in 1..n |-> (i * 37) % 256]

Archives ==
  UNION {[1..n -> ByteSamples] : n \in 0..MaxBytes}
    \cup {LongArchive(n) : n \in LongLengths}

Call_download_archive ==
  /\ call = NoCall
  /\ \E bytes \in Archives :
       call' = [fn |-> "_create_local_archive", bytes |-> bytes,
                stdout |-> base64_stdout(bytes), written |-> Download(bytes)]
  /\ UNCHANGED <<mainVars, webVars, now, disk, rd>>

\* ------------------------------ the extraction of the generated code
\* in _generate_code of e2b_simple.py ("simple") and in process_sqs_message
\* of e2b_handler.py ("e2b"). The response is a sequence of tokens: the
\* fence (three backquotes), the newline, and words.
Fence == "<fence>"

\* the two characters that _generate_code of e2b_simple.py replaces by "/"
DivisionSign == "<division sign>"

\* the tokens that \w* matches
Words == {"python", "js", "prose", "x", "y", "z"}

\* the start of the pattern of re.findall: the fence, python, a newline
OpenFence == <<Fence, "python", "\n">>

\* the end of the pattern, a newline and the fence, stands at position j
ClosesAt(code, j) ==
  j + 1 <= Len(code) /\ code[j] = "\n" /\ code[j + 1] = Fence

RECURSIVE findall(_, _)
\* re.findall(pattern, code, re.DOTALL) from a position on:
\* the leftmost match, its group as short as possible, then the matches
\* after it
findall(code, from) ==
  LET closes(i) == {j \in (i + 3)..Len(code) : ClosesAt(code, j)}
      starts == {i \in from..(Len(code) - 2) :
                   SubSeq(code, i, i + 2) = OpenFence /\ closes(i) # {}}
  IN IF starts = {} THEN <<>>
     ELSE LET i == Min(starts)
              j == Min(closes(i))
          IN <<SubSeq(code, i + 3, j - 1)>> \o findall(code, j + 2)

RECURSIVE join(_, _)
\* sep.join(parts)
join(sep, parts) ==
  IF parts = <<>> THEN <<>>
  ELSE IF Len(parts) = 1 THEN parts[1]
  ELSE parts[1] \o sep \o join(sep, Tail(parts))

RECURSIVE sub_fence_lines(_)
\* re.sub: a fence, the word after it if any, and the newline are removed
sub_fence_lines(code) ==
  IF code = <<>> THEN <<>>
  ELSE IF Len(code) >= 2 /\ code[1] = Fence /\ code[2] = "\n"
  THEN sub_fence_lines(SubSeq(code, 3, Len(code)))
  ELSE IF Len(code) >= 3 /\ code[1] = Fence /\ code[2] \in Words
            /\ code[3] = "\n"
  THEN sub_fence_lines(SubSeq(code, 4, Len(code)))
  ELSE <<code[1]>> \o sub_fence_lines(Tail(code))

\* code.replace(old, new) for single tokens; new = <<>> removes
replace(code, old, new) ==
  Concat([i \in DOMAIN code |-> IF code[i] = old THEN new ELSE <<code[i]>>])

\* the instructions taken from the response text
extract_code(v, text) ==
  LET blocks == findall(text, 1)
      code == IF Contains(text, <<Fence, "python">>)
              THEN IF blocks # <<>> THEN join(<<"\n", "\n">>, blocks)
                   ELSE text
              ELSE IF v = "simple" /\ Contains(text, <<Fence>>)
              THEN replace(sub_fence_lines(text), Fence, <<>>)
              ELSE text
  IN IF v = "simple" THEN replace(code, DivisionSign, <<"/">>) ELSE code

\* a response is made of up to MaxSegments segments: a line of prose, or a
\* fenced block with a tag and the lines of its body
MaxSegments == 3

Segments ==
  {[kind |-> "prose", tag |-> "", lines |-> <<"prose">>]}
    \cup [kind : {"block"}, tag : {"python"},
          lines : {<<>>, <<"x">>, <<"y">>, <<"x", "y">>, <<DivisionSign>>}]
    \cup {[kind |-> "block", tag |-> "js", lines |-> <<"z">>]}

\* the body of a block: its lines, with newlines between them
Body(seg) == join(<<"\n">>, [i \in DOMAIN seg.lines |-> <<seg.lines[i]>>])

\* a segment as text, each of its lines ended by a newline
Render(seg) ==
  LET text == Concat([i \in DOMAIN seg.lines |-> <<seg.lines[i], "\n">>])
  IN IF seg.kind = "prose" THEN text
     ELSE <<Fence, seg.tag, "\n">> \o text \o <<Fence, "\n">>

Responses == UNION {[1..n -> Segments] : n \in 0..MaxSegments}

Call_generate_code ==
  /\ call = NoCall
  /\ \E v \in {"simple", "e2b"}, segs \in Responses :
       LET text == Concat([i \in DOMAIN segs |-> Render(segs[i])])
       IN call' = [fn |-> "_generate_code", variant |-> v, segs |-> segs,
                   text |-> text, code |-> extract_code(v, text)]
  /\ UNCHANGED <<mainVars, webVars, now, disk, rd>>

\* ------------------- the local file of _create_local_archive
\* open(local_archive_path, 'wb') was reached and returned: the commands
\* before it raised nothing, and when the retrieval raised it was the base64
\* command (atBase64) and not makedirs or open
FileOpened(run, atBase64) ==
  run.get \in {"ok", "fail"} \/ (run.get = "raised" /\ atBase64)

\* the directory archives/ after the call: open with 'wb' creates the file
\* or empties the one that is there, f.write puts the decoded archive in it
LocalStoreAfter(store, run, atBase64) ==
  IF FileOpened(run, atBase64)
  THEN WriteFile(store, LocalArchivePath(TaskId),
                 IF run.get = "ok" THEN "archive" ELSE "empty")
  ELSE store

\* archives/ before the call: without the file, or with the archive that an
\* earlier attempt of the task wrote
LocalStores == {<<>>, WriteFile(<<>>, LocalArchivePath(TaskId), "earlier")}

Call_create_local_archive ==
  /\ call = NoCall
  /\ \E tar \in TarOutcomes, check \in CheckOutcomes, ls \in LsOutcomes,
        fb \in FallbackOutcomes, get \in GetOutcomes, atBase64 \in BOOLEAN,
        store \in LocalStores :
       LET run == ArchiveRun(tar, check, ls, fb, get)
       IN call' = [fn |-> "_create_local_archive (files)", run |-> run,
                   before |-> store,
                   after |-> LocalStoreAfter(store, run, atBase64),
                   result |-> ArchiveResult(run)]
  /\ UNCHANGED <<mainVars, webVars, now, disk, rd>>

\* ---------------------------------------------------- specification
InitCalls ==
  /\ MainIdle
  /\ now = 0
  /\ disk = <<>>
  /\ rd = NoDelivery
  /\ call = NoCall
  /\ WebIdle

NextCalls ==
  \/ Call_list_created_files
  \/ Call_get_main_file_content
  \/ Call_download_archive
  \/ Call_create_local_archive
  \/ Call_generate_code

SpecCalls == InitCalls /\ [][NextCalls]_vars

\* ======================================================================
\* SpecServer: the patent-search server (ps.py) serving /run-in-e2b and
\* /kill-sandbox requests.  Both handlers are `async def` and await
\* nothing, so the event loop runs each of them to its end before the next
\* request is taken up: one request is one step.

\* bound: the number of sandboxes Sandbox.create starts
MaxSandboxes == 3

\* what a /run-in-e2b request can die of: nothing, Sandbox.create,
\* sbx.files.write, sbx.commands.run or sbx.get_host raising an Exception
RunFailures == {"none", "create", "write", "run", "get_host"}

\* what sbx.kill() can do: end the sandbox, raise an Exception with the
\* sandbox still alive, or raise one after the sandbox was ended
KillOutcomes == {"killed", "raised", "killed then raised"}

\* the sandbox ids a /kill-sandbox request can carry: those uuid4 generated
\* and one it never generated
RequestIds == 1 .. (MaxSandboxes + 1)

\* str(uuid.uuid4()): an id no earlier call returned; the id of the n-th
\* sandbox is written n
uuid4(sandboxes) == Len(sandboxes) + 1

\* active_sandboxes[sandbox_id] = sbx
Register(reg, id, sbx) ==
  [i \in DOMAIN reg \cup {id} |-> IF i = id THEN sbx ELSE reg[i]]

\* mutant: the killed sandbox stays in the registry
KeepRegistered(reg, id) == reg

\* del active_sandboxes[request.sandbox_id]
Unregister(reg, id) == [i \in DOMAIN reg \ {id} |-> reg[i]]

\* POST /run-in-e2b
run_in_e2b ==
  \E failAt \in RunFailures :
    /\ Len(cloud) < MaxSandboxes
    /\ LET sbx == Len(cloud) + 1
           sandbox_id == uuid4(cloud)
       IN  IF failAt = "create"
           THEN /\ response' = [endpoint |-> "/run-in-e2b", status |-> "500",
                                sandbox_id |-> 0, created |-> 0, kills |-> 0]
                /\ UNCHANGED <<active_sandboxes, cloud, returned>>
           ELSE /\ cloud' = Append(cloud, "live")
                /\ IF failAt = "none"
                   THEN /\ active_sandboxes' =
                             Register(active_sandboxes, sandbox_id, sbx)
                        /\ returned' = returned \cup {sandbox_id}
                        /\ response' = [endpoint |-> "/run-in-e2b",
                                        status |-> "200",
                                        sandbox_id |-> sandbox_id,
                                        created |-> sbx, kills |-> 0]
                   ELSE \* except Exception: HTTPException(500)
                        /\ response' = [endpoint |-> "/run-in-e2b",
                                        status |-> "500", sandbox_id |-> 0,
                                        created |-> sbx, kills |-> 0]
                        /\ UNCHANGED <<active_sandboxes, returned>>
    /\ UNCHANGED <<mainVars, now, disk, rd, call, answered, preview>>

\* POST /kill-sandbox
kill_sandbox ==
  \E sandbox_id \in RequestIds :
    /\ IF sandbox_id \in DOMAIN active_sandboxes
       THEN \E outcome \in KillOutcomes :
              LET sbx == active_sandboxes[sandbox_id]
              IN  /\ cloud' = IF outcome = "raised" THEN cloud
                              ELSE [cloud EXCEPT ![sbx] = "killed"]
                  /\ IF outcome = "killed"
                     THEN /\ active_sandboxes' =
                               Unregister(active_sandboxes, sandbox_id)
                          /\ answered' = answered \cup {sandbox_id}
                          /\ response' = [endpoint |-> "/kill-sandbox",
                                          status |-> "killed",
                                          sandbox_id |-> sandbox_id,
                                          created |-> 0, kills |-> 1]
                     ELSE \* except Exception: HTTPException(500)
                          /\ response' = [endpoint |-> "/kill-sandbox",
                                          status |-> "500",
                                          sandbox_id |-> sandbox_id,
                                          created |-> 0, kills |-> 1]
                          /\ UNCHANGED <<active_sandboxes, answered>>
       ELSE /\ response' = [endpoint |-> "/kill-sandbox",
                            status |-> "not_found",
                            sandbox_id |-> sandbox_id,
                            created |-> 0, kills |-> 0]
            /\ UNCHANGED <<active_sandboxes, cloud, answered>>
    /\ UNCHANGED <<mainVars, now, disk, rd, call, returned, preview>>

InitServer ==
  /\ MainIdle
  /\ AuxIdle

NextServer ==
  \/ run_in_e2b
  \/ kill_sandbox

SpecServer == InitServer /\ [][NextServer]_vars

\* ======================================================================
\* SpecPreview: one run of start_e2b_preview (e2b_react_preview.py), from
\* its call to its return or to the exception that ends it.

\* timeout_seconds: the sandbox ends by itself this long after its creation
TimeoutSeconds == 600

\* time.sleep(2) between starting the HTTP server and get_host
StartupSleep == 2

\* time.sleep(10) in the `while True` loop
LoopSleep == 10

\* bound: the seconds a run is followed for
MaxPreviewClock == 620

\* a call either returns or raises an Exception
StepOutcomes == {"ok", "Exception"}

\* the state of the sandboxes when the clock shows t: E2B ends a sandbox
\* whose timeout has passed
Elapse(sandboxes, createdAt, t) ==
  [h \in DOMAIN sandboxes |->
     IF sandboxes[h] = "live" /\ t >= createdAt + TimeoutSeconds
     THEN "expired" ELSE sandboxes[h]]

\* the statement at `from` returned and `to` is next, or it raised
PreviewStep(from, to) ==
  /\ preview.pc = from
  /\ \E outcome \in StepOutcomes :
       preview' = IF outcome = "ok" THEN [preview EXCEPT !.pc = to]
                  ELSE [preview EXCEPT !.pc = "raised", !.exc = outcome]

\* html = build_html_from_jsx(jsx_path)
preview_build_html ==
  /\ PreviewStep("build_html", "create")
  /\ UNCHANGED <<mainVars, now, disk, rd, call, active_sandboxes, cloud,
                 response, returned, answered>>

\* sbx = Sandbox.create(timeout=timeout_seconds)
preview_create ==
  /\ preview.pc = "create"
  /\ \E outcome \in StepOutcomes :
       IF outcome = "ok"
       THEN /\ cloud' = Append(cloud, "live")
            /\ preview' = [preview EXCEPT !.pc = "write",
                                          !.sbx = Len(cloud) + 1,
                                          !.createdAt = now]
       ELSE /\ preview' = [preview EXCEPT !.pc = "raised", !.exc = outcome]
            /\ UNCHANGED cloud
  /\ UNCHANGED <<mainVars, now, disk, rd, call, active_sandboxes, response,
                 returned, answered>>

\* sbx.files.write("/home/user/index.html", html)
preview_write ==
  /\ PreviewStep("write", "run")
  /\ UNCHANGED <<mainVars, now, disk, rd, call, active_sandboxes, cloud,
                 response, returned, answered>>

\* sbx.commands.run("cd /home/user && python -m http.server ...")
preview_run ==
  /\ PreviewStep("run", "sleep")
  /\ UNCHANGED <<mainVars, now, disk, rd, call, active_sandboxes, cloud,
                 response, returned, answered>>

\* time.sleep(2)
preview_sleep ==
  /\ preview.pc = "sleep"
  /\ now' = now + StartupSleep
  /\ cloud' = Elapse(cloud, preview.createdAt, now')
  /\ preview' = [preview EXCEPT !.pc = "get_host"]
  /\ UNCHANGED <<mainVars, disk, rd, call, active_sandboxes, response,
                 returned, answered>>

\* host = sbx.get_host(port), and the prints that follow
preview_get_host ==
  /\ PreviewStep("get_host", "loop")
  /\ UNCHANGED <<mainVars, now, disk, rd, call, active_sandboxes, cloud,
                 response, returned, answered>>

\* while True: time.sleep(10)
preview_loop ==
  /\ preview.pc = "loop"
  /\ now + LoopSleep <= MaxPreviewClock
  /\ now' = now + LoopSleep
  /\ cloud' = Elapse(cloud, preview.createdAt, now')
  /\ UNCHANGED <<mainVars, disk, rd, call, active_sandboxes, response,
                 returned, answered, preview>>

\* Ctrl+C: in the loop it is caught by `except KeyboardInterrupt`, which
\* prints "Stopping preview and killing sandbox..." and lets the function
\* return; anywhere before the loop it ends the function
preview_KeyboardInterrupt ==
  /\ preview.pc \in {"build_html", "create", "write", "run", "sleep",
                     "get_host", "loop"}
  /\ IF preview.pc = "loop"
     THEN preview' = [preview EXCEPT !.pc = "returned",
                                     !.exc = "KeyboardInterrupt"]
     ELSE preview' = [preview EXCEPT !.pc = "raised",
                                     !.exc = "KeyboardInterrupt"]
  /\ UNCHANGED <<mainVars, now, disk, rd, call, active_sandboxes, cloud,
                 response, returned, answered>>

InitPreview ==
  /\ MainIdle
  /\ now = 0
  /\ disk = <<>>
  /\ rd = NoDelivery
  /\ call = NoCall
  /\ active_sandboxes = <<>>
  /\ cloud = <<>>
  /\ response = NoResponse
  /\ returned = {}
  /\ answered = {}
  /\ preview = [pc |-> "build_html", sbx |-> 0, createdAt |-> 0,
                exc |-> "none"]

NextPreview ==
  \/ preview_build_html
  \/ preview_create
  \/ preview_write
  \/ preview_run
  \/ preview_sleep
  \/ preview_get_host
  \/ preview_loop
  \/ preview_KeyboardInterrupt

SpecPreview == InitPreview /\ [][NextPreview]_vars

\* =============================================================== claims
\* the handling of message att.msg in the for loop has ended
Handled == pc = "next"

\* positions inside process_task
InTask ==
  pc \in {"pt_entry", "pt_gen", "pt_create", "pt_exec", "pt_list",
          "pt_archive", "pt_upload", "pt_finally",
          "h_entry", "h_create", "h_plan", "h_exec", "h_finally",
          "cs_start", "cs_create", "cs_exec", "cs_list", "cs_main",
          "cs_finally"}

\* process_task has ended for the attempt in att
TaskEnded == ~InTask /\ att.task # "none"

\* C1 (as claimed): in SQSSimpleProcessor, once the handling of a received
\* message has ended, delete_message was called for it if and only if the
\* result of process_task has status "completed".
C1_DeleteIffCompleted ==
  (variant = "simple" /\ Handled)
    => (att.deleteCalled <=> att.result.status = "completed")

\* C2 (as claimed): in SQSE2BProcessor, once the handling of a received
\* message has ended with its record written, delete_message was called for
\* it if and only if the record has status "completed".
C2_DeleteIffCompletedE2B ==
  (variant = "e2b" /\ Handled /\ att.saved = "ok")
    => (att.deleteCalled <=> att.result.status = "completed")

\* C3 (as claimed): process_task raises no exception to its caller for any
\* task_data parsed from a message body, and what it returns has status
\* "completed" or "failed".
C3_ProcessTaskNeverRaises ==
  /\ att.failAt # "entry"
  /\ (TaskEnded /\ att.exc = "none")
       => att.result.status \in {"completed", "failed"}

\* C4 (as claimed): whichever of generation, execution, collection,
\* archiving or upload raises, sandbox.kill has been called exactly once when
\* process_task ends.
C4_KillExactlyOnce ==
  (/\ variant = "simple"
   /\ TaskEnded
   /\ att.exc = "none"
   /\ att.failAt \in {"generate", "execute", "collect", "archive", "upload"})
    => att.kills = 1

\* C4 (amended): kill is never called twice, and when process_task ends it has
\* been called exactly once if the creation step returned a sandbox to
\* process_task and not at all otherwise; a failure of generation or creation
\* in SimpleE2BGenerator leaves no sandbox bound.
C4_KillOncePerBoundSandbox ==
  /\ att.kills <= 1
  /\ InTask => (att.kills = 0)
  /\ TaskEnded => (att.kills = IF att.sandbox THEN 1 ELSE 0)
  /\ (variant = "simple" /\ att.failAt \in {"generate", "create"})
       => ~att.sandbox
  /\ att.failAt \in {"execute", "collect", "archive", "upload"}
       => att.sandbox

C4_Witness ==
  /\ variant = "simple"
  /\ pc = "save"
  /\ att.failAt = "collect"
  /\ att.result.status = "failed"
  /\ att.kills = 1

\* C5: when Sandbox.create raises in SimpleE2BGenerator.process_task, the
\* record is "failed" with the creation error as its error, no execution,
\* collection, archiving, upload or kill call is made, and the consumer never
\* calls delete_message: the message stays in flight for redelivery.
C5_CreateFailureShortCircuits ==
  (variant = "simple" /\ att.failAt = "create" /\ att.exc = "none")
    => /\ att.result.status = "failed"
       /\ att.result.error = "CreateError"
       /\ att.steps = <<"generate", "create">>
       /\ att.kills = 0
       /\ ~att.deleteCalled
       /\ pc # "delete"
       /\ qstate[att.msg] = "inflight"

C5_Witness ==
  /\ variant = "simple"
  /\ Handled
  /\ att.failAt = "create"
  /\ att.saved = "ok"

\* the sequence s is strictly increasing under the ranking r
Increasing(s, r(_)) == \A i \in 1..(Len(s) - 1) : r(s[i]) < r(s[i + 1])

\* the order of section 4.2: the environment is created first
RankSpec(step) ==
  CASE step = "create"   -> 1
    [] step = "generate" -> 2
    [] step = "execute"  -> 3
    [] step = "collect"  -> 4
    [] step = "archive"  -> 5
    [] step = "upload"   -> 6
    [] step = "kill"     -> 7

\* the order of SimpleE2BGenerator.process_task: generation comes first
RankCode(step) ==
  CASE step = "generate" -> 1
    [] step = "create"   -> 2
    [] step = "execute"  -> 3
    [] step = "collect"  -> 4
    [] step = "archive"  -> 5
    [] step = "upload"   -> 6
    [] step = "kill"     -> 7

\* C6 (as claimed): in SimpleE2BGenerator.process_task the calls of one
\* attempt occur in the order create, generate, execute, collect, archive,
\* upload, kill.
C6_CreateBeforeGenerate ==
  variant = "simple" => Increasing(att.steps, RankSpec)

\* C6 (amended): the calls of one attempt occur in the order generate,
\* create, execute, collect, archive, upload, kill, each after the previous
\* one has ended; an attempt that returns "completed" has made all of them
\* up to archive, with the upload only if the uploader is enabled and an
\* archive was retrieved.
C6_StepOrder ==
  variant = "simple" =>
    /\ Increasing(att.steps, RankCode)
    /\ (TaskEnded /\ att.result.status = "completed") =>
         /\ Len(att.steps) >= 6
         /\ SubSeq(att.steps, 1, 5) =
              <<"generate", "create", "execute", "collect", "archive">>
         /\ att.steps[Len(att.steps)] = "kill"
         /\ (Len(att.steps) = 7) = UploadAttempted(s3_enabled, att.archive)

C6_Witness ==
  /\ variant = "simple"
  /\ pc = "save"
  /\ att.steps = <<"generate", "create", "execute", "collect", "archive",
                   "upload", "kill">>

\* C7 (as claimed): when the script exits non-zero, a file was produced and
\* nothing else fails, process_task has run collection and archiving, returns
\* "completed", and the error field of the record holds the captured stderr.
C7_NonZeroExitKeepsStderr ==
  (/\ variant = "simple"
   /\ TaskEnded
   /\ att.exec = "nonzero"
   /\ att.files # <<>>
   /\ att.failAt = "none")
    => /\ att.result.status = "completed"
       /\ \E i \in DOMAIN att.steps : att.steps[i] = "collect"
       /\ \E i \in DOMAIN att.steps : att.steps[i] = "archive"
       /\ att.result.error = "stderr"

\* C8 (as claimed): whatever the storage client raises during the upload,
\* process_task returns "completed" with s3_url = None.
C8_UploadNeverFailsTask ==
  (variant = "simple" /\ TaskEnded /\ att.exc = "none"
     /\ att.failAt = "upload")
    => /\ att.result.status = "completed"
       /\ att.result.s3_url = "None"

\* C9 (as claimed): a message whose body is not parseable, once handled, has
\* a "failed" record, no sandbox was created for it and delete_message was
\* not called for it, in both consumers.
C9_MalformedBodyFailsUndeleted ==
  (Handled /\ bodies[att.msg] = "notjson" /\ att.saved = "ok")
    => /\ att.result.status = "failed"
       /\ att.sbx = "none"
       /\ ~att.deleteCalled

\* C10 (as claimed): after any exception, raised by receive_message or while
\* a message is handled, the consumer is in the 5 second backoff.
C10_BackoffAfterAnyException ==
  (recvErr # "none" \/ att.caught) => pc = "backoff"

\* C10 (amended): the poll loop is left only after a KeyboardInterrupt; an
\* error raised by receive_message leads to the backoff, which sleeps exactly
\* 5 seconds and is followed by the next receive; an Exception raised while a
\* message is handled is caught per message and the consumer goes on with the
\* next message or receive without backoff.
C10_LoopLeftOnlyOnInterrupt ==
  /\ pc \in {"stopped", "aborted"} => interrupted
  /\ ~running => (interrupted /\ pc = "stopped")
  /\ (recvErr # "none") <=> (pc = "backoff")
  /\ lastSleep # 0 => (lastSleep = BackoffSeconds /\ pc = "poll" /\ running)
  /\ att.caught => (pc = "next" /\ running /\ lastSleep = 0)

C10_Witness ==
  /\ pc = "poll"
  /\ running
  /\ lastSleep = BackoffSeconds
  /\ deliveries > 0

\* C11 (as claimed): once a KeyboardInterrupt has been delivered, be it while
\* blocked in the receive, while an attempt is in flight or while the sandbox
\* is being destroyed, no further receive_message call is issued; and when
\* poll_and_process has been left, kill has been called for the sandbox the
\* attempt in flight had bound.
C11_NoReceiveAfterInterrupt ==
  /\ [][interrupted => ~receive_message]_vars
  /\ []((pc \in {"stopped", "aborted"} /\ att.sandbox) => att.kills = 1)

C13_SaveFailureKeepsAck ==
  (variant = "simple" /\ Handled /\ att.saved = "raised")
    => (att.deleteCalled <=> att.result.status = "completed")

\* C14 (as claimed): the record stored for an attempt that ended "failed"
\* holds the status "failed" and the error string of the failure.
C14_FailedRecordHoldsError ==
  (variant = "simple" /\ Handled /\ att.result.status = "failed"
     /\ att.saved = "ok")
    => /\ att.stored.status = "failed"
       /\ att.stored.error # "absent"
       /\ att.stored.error = att.result.error

\* C15 (as claimed): SimpleE2BGenerator.process_task returns "failed" only
\* when the generation, the creation of the sandbox or the start of the
\* script failed; a failure of a later step (listing, archiving, upload,
\* destroy) never makes the status "failed".
C15_FailedOnlyBeforeCollection ==
  (variant = "simple" /\ TaskEnded /\ att.exc = "none"
     /\ att.result.status = "failed")
    => att.failAt \in {"generate", "create", "execute"}

\* _create_local_archive has just returned to process_task
ArchiverReturned == variant = "simple" /\ pc = "pt_upload"

\* C16 (as claimed): when the check after the bundling of the listed files
\* finds no archive in the sandbox and _create_local_archive returns None
\* with no command of it having raised, the fallback bundling of the working
\* directory has been attempted.
C16_FallbackBeforeNone ==
  (ArchiverReturned /\ att.files # <<>> /\ att.arc.check = "missing"
     /\ att.archive = "None" /\ ~ArchiveRaised(att.arc))
    => att.arc.fb # "no"

\* C16 (amended): when the check finds no archive, the working directory is
\* listed before _create_local_archive returns; the fallback bundling is run
\* exactly when that listing names a file, and only after a failed check; the
\* archive is retrieved only after these; None is returned without a fallback
\* bundling only when the listing names no file or the listing command raises.
C16_FallbackWhenFilesListed ==
  ArchiverReturned =>
    /\ att.arc.check = "missing" <=> att.arc.ls # "no"
    /\ att.arc.ls = "some" <=> att.arc.fb # "no"
    /\ att.arc.get # "no" =>
         /\ att.arc.check \in {"exists", "missing"}
         /\ att.arc.check = "missing" => att.arc.ls \in {"some", "empty"}
         /\ att.arc.ls = "some" => att.arc.fb \in {"made", "notmade"}
    /\ (att.arc.check = "missing" /\ att.archive = "None"
          /\ att.arc.fb = "no")
         => att.arc.ls \in {"empty", "raised"}
    /\ att.archive = "path" =>
         (att.arc.check = "exists" \/ att.arc.fb = "made")

C16_Witness ==
  /\ ArchiverReturned
  /\ att.files # <<>>
  /\ att.arc.check = "missing"
  /\ att.arc.fb = "notmade"
  /\ att.archive = "None"

\* every way of bundling was tried and left no archive in the sandbox
ArchiveExhausted(run) ==
  run.check = "missing" /\ (run.ls = "empty" \/ run.fb = "notmade")

\* C17: _create_local_archive raises no Exception to process_task (only a
\* KeyboardInterrupt passes through it): when a sandbox command or a local
\* file operation in it raises, or every bundling left no archive, it returns
\* None and process_task goes on; an attempt whose archiver returned None
\* ends "completed" with local_archive and s3_url None and no upload call.
C17_ArchiverFailureAbsorbed ==
  variant = "simple" =>
    /\ att.failAt = "archive" => att.exc = "kbint"
    /\ (pc = "pt_upload" /\ (ArchiveRaised(att.arc) \/ ArchiveExhausted(att.arc)))
         => /\ att.archive = "None"
            /\ att.failAt = "none"
            /\ att.exc = "none"
    /\ (TaskEnded /\ att.exc = "none" /\ att.archive = "None"
          /\ \E i \in DOMAIN att.steps : att.steps[i] = "archive")
         => /\ att.result.status = "completed"
            /\ att.result.local_archive = "None"
            /\ att.result.s3_url = "None"
            /\ att.up = "none"

C17_Witness ==
  /\ ArchiverReturned
  /\ att.arc.get = "raised"
  /\ att.archive = "None"
  /\ att.files # <<>>

\* the call `step` was made in the attempt
StepMade(step) == \E i \in DOMAIN att.steps : att.steps[i] = step

\* C18 (as claimed): when the run produced no file (the listing is empty) and
\* no step fails, the archiver has been called and returned None, no upload
\* was attempted, and the record is "completed" with an empty files_created
\* and s3_url None.
C18_NoFilesNullArchive ==
  (variant = "simple" /\ TaskEnded /\ att.exc = "none"
     /\ StepMade("collect") /\ att.files = <<>> /\ att.failAt = "none")
    => /\ StepMade("archive")
       /\ att.archive = "None"
       /\ att.up = "none"
       /\ ~StepMade("upload")
       /\ att.result.status = "completed"
       /\ att.result.files_created = <<>>
       /\ att.result.s3_url = "None"

\* C19 (as claimed): when the probe of __init__ fails, s3_enabled is false,
\* the consumer still starts, and no task attempts an upload.
C19_ProbeFailureDisablesOnly ==
  (variant = "simple" /\ probe \in {"ClientError", "OtherError"})
    => /\ ~s3_enabled
       /\ pc # "exit1"
       /\ att.up = "none"
       /\ ~StepMade("upload")

\* C20: the record of an attempt of SimpleE2BGenerator, as returned and as
\* stored, holds a storage locator (s3_url neither None nor missing) if and
\* only if its status is "completed", the uploader is enabled, an archive was
\* retrieved and the upload succeeded; when no step fails, a file is listed
\* and the upload succeeds, the record is "completed", lists that file and
\* holds the locator.
C20_LocatorIffUploaded ==
  (variant = "simple" /\ TaskEnded /\ att.exc = "none") =>
    /\ att.result.s3_url \in {"url", "None", "absent"}
    /\ att.result.s3_url = "url"
         <=> /\ att.result.status = "completed"
             /\ s3_enabled
             /\ att.archive = "path"
             /\ att.up = "ok"
    /\ (att.up = "ok" /\ att.files # <<>>)
         => /\ att.result.status = "completed"
            /\ att.result.files_created = att.files
            /\ att.result.s3_url = "url"
    /\ att.saved = "ok"
         => /\ att.stored.s3_url = "url" <=> att.result.s3_url = "url"
            /\ att.stored.files_created = att.result.files_created
            /\ att.stored.status = att.result.status

C20_Witness ==
  /\ variant = "simple"
  /\ Handled
  /\ att.exec = "ok"
  /\ att.saved = "ok"
  /\ att.stored.status = "completed"
  /\ att.stored.files_created = <<"/tmp/hello.py">>
  /\ att.stored.s3_url = "url"

\* C25: when any of SQS_QUEUE_URL, E2B_API_KEY, ANTHROPIC_API_KEY is unset at
\* the start of main, the process goes from main to sys.exit(1) and nowhere
\* else: no generator is built, no probe is made, no receive_message call is
\* issued and no message is taken from the queue.
C25_ConfigErrorFatal ==
  /\ [](missing_vars # {} =>
          /\ pc \in {"main", "exit1"}
          /\ probe = "none"
          /\ deliveries = 0
          /\ att = NoAttempt
          /\ \A m \in Msgs : qstate[m] = "visible")
  /\ [][missing_vars # {} => ~receive_message]_vars

C25_Witness ==
  /\ missing_vars = {"E2B_API_KEY"}
  /\ variant = "simple"
  /\ pc = "exit1"

\* the consumer is between two attempts or between two receives
BetweenAttempts == pc \in {"save", "delete", "next", "poll", "msg", "backoff"}

\* C23 (as claimed): outside process_task no sandbox is live: when the
\* consumer saves, acknowledges, takes the next message or issues a receive,
\* the sandbox of the attempt before has been destroyed.
C23_NoLiveSandboxBetweenAttempts ==
  (variant = "simple" /\ BetweenAttempts) => att.sbx # "live"

\* C23 (amended): at most one attempt is in progress and it has created at
\* most one sandbox; a receive is issued only when no attempt is in progress
\* and every message of the batch before has been handled; outside
\* process_task kill has been called for the sandbox the attempt created, and
\* a sandbox is still live there only if that kill call raised.
C23_OneAttemptKillCalled ==
  variant = "simple" =>
    /\ Cardinality({i \in DOMAIN att.steps : att.steps[i] = "create"}) <= 1
    /\ att.sbx # "none" => StepMade("create")
    /\ pc \in {"poll", "backoff"} =>
         (att = NoAttempt /\ batch = <<>> /\ idx = 0)
    /\ pc \in {"msg", "save", "delete", "handler", "next"} \/ InTask
         => /\ idx \in DOMAIN batch
            /\ pc # "next" => qstate[batch[idx]] = "inflight"
    /\ pc = "msg" => att = NoAttempt
    /\ (att.msg # 0 /\ pc # "stopped") => att.msg = batch[idx]
    /\ BetweenAttempts =>
         /\ att.kills = (IF att.sandbox THEN 1 ELSE 0)
         /\ att.sbx = "live" => (att.sandbox /\ att.kills = 1)

C23_Witness ==
  /\ variant = "simple"
  /\ pc = "poll"
  /\ deliveries = 1
  /\ \A m \in Msgs : qstate[m] = "deleted"

\* C21 (as claimed): a record file, once written by an attempt of the task,
\* is never written again by a later attempt.
C21_RecordNeverOverwritten ==
  [][\A p \in DOMAIN disk : p.dir = "results" => disk'[p] = disk[p]]_vars

\* C21 (amended): the records of two attempts saved in different seconds are
\* in different files and both stay; the record of an attempt is replaced
\* exactly when a later attempt of the task is saved within the same second.
C21_RecordKeptUnlessSameSecond ==
  \A i \in DOMAIN rd.saves :
    LET e == rd.saves[i]
        p == RecordPath(TaskId, e.ts)
    IN /\ p \in DOMAIN disk
       /\ disk[p] = e.n
            <=> ~\E j \in DOMAIN rd.saves : j > i /\ rd.saves[j].ts = e.ts
       /\ \A j \in DOMAIN rd.saves :
            rd.saves[j].ts # e.ts => RecordPath(TaskId, rd.saves[j].ts) # p

C21_Witness ==
  /\ Len(rd.saves) = 2
  /\ rd.saves[1].ts # rd.saves[2].ts
  /\ disk[RecordPath(TaskId, rd.saves[1].ts)] = 1
  /\ disk[RecordPath(TaskId, rd.saves[2].ts)] = 2

\* C22 (as claimed): the local archive file and the storage object of the
\* task, once written by an attempt, are never written again.
C22_ArchiveNeverReplaced ==
  [][\A p \in DOMAIN disk :
       p.dir \in {"archives", "s3"} => disk'[p] = disk[p]]_vars

\* C24: every delivery of the message starts an attempt, whatever the earlier
\* attempts did: the attempts made are as many as the deliveries, also when
\* an earlier one completed; each attempt creates at most one, new sandbox;
\* a failed delete_message leaves the message undeleted and the consumer
\* polling, and the message is redelivered only after the visibility timeout.
C24_EveryDeliveryIsAnAttempt ==
  /\ Len(rd.done) = (IF rd.pc = "task" THEN rd.n - 1 ELSE rd.n)
  /\ rd.sandboxes <= Len(rd.done)
  /\ Len(rd.saves) <= Len(rd.done)
  /\ \A i \in DOMAIN rd.saves : rd.saves[i].n \in DOMAIN rd.done
  /\ rd.pc \in {"poll", "task", "save", "delete"}
  /\ rd.msg = "deleted" =>
       \E i \in DOMAIN rd.done : rd.done[i] = "completed"
  /\ (rd.n >= 2 /\ rd.pc = "task") => now >= VisibilityTimeout

C24_Witness ==
  /\ rd.n = 2
  /\ rd.done = <<"completed", "completed">>
  /\ rd.sandboxes = 2
  /\ Len(rd.saves) = 2
  /\ rd.msg = "deleted"

\* a path under /tmp whose name ends with one of the extensions
Recognized(f) == StartsWith(f, Tmp) /\ \E e \in Extensions : EndsWith(f, e)

\* no path of the sandbox holds a newline
OrdinaryNames(fs) == \A i \in DOMAIN fs : "\n" \notin Range(fs[i])

\* the files of the sandbox that the collector is to return
Qualifying(fs) == {f \in Range(fs) : Recognized(f) /\ f # GeneratePy}

\* C26 (as claimed): _list_created_files returns at most 20 entries, each a
\* path under /tmp with one of the recognized extensions, and none of them
\* is /tmp/generate.py.
C26_ListedFilesQualify ==
  call.fn = "_list_created_files"
    => /\ Len(call.files) <= HeadCount
       /\ \A i \in DOMAIN call.files :
            Recognized(call.files[i]) /\ call.files[i] # GeneratePy

\* C27 (as claimed): the sequence _list_created_files returns is sorted by
\* path, and it holds the qualifying files, or the 20 smallest of them when
\* more than 20 qualify.
C27_SortedByPath ==
  (call.fn = "_list_created_files" /\ OrdinaryNames(call.fs))
    => LET files == call.files
           rest  == Qualifying(call.fs) \ Range(files)
       IN /\ \A i, j \in DOMAIN files : i < j => LexLess(files[i], files[j])
          /\ Range(files) \subseteq Qualifying(call.fs)
          /\ rest # {} => Len(files) = HeadCount
          /\ \A f \in Range(files), g \in rest : LexLess(f, g)

\* the content of a file of the sandbox, whether or not reading it succeeds
FileContent(sb, f) == IF sb[f] = "empty" THEN <<>> ELSE ContentOf(f)

\* the content the two-tier policy names for a file list: that of the first
\* main-file name that is in the list, else that of the first listed file
\* with a source suffix, else none
PolicyContent(v, sb, files) ==
  LET cands   == main_candidates(v)
      present == {k \in DOMAIN cands : FileOf(v, cands[k]) \in Range(files)}
      sources == {i \in DOMAIN files :
                    \E e \in SourceSuffixes(v) : EndsWith(files[i], e)}
  IN IF present # {} THEN FileContent(sb, FileOf(v, cands[Min(present)]))
     ELSE IF sources # {} THEN FileContent(sb, files[Min(sources)])
     ELSE <<>>

\* C28 (as claimed): _get_main_file_content returns the content of the first
\* main-file name that is present in the file list, whatever the order of
\* the list; if none is present, the content of the first listed file with a
\* source extension; and empty content if no file qualifies. (Stated for
\* the calls in which no read fails.)
C28_TwoTierSelection ==
  (call.fn = "_get_main_file_content"
     /\ \A f \in DOMAIN call.sb : call.sb[f] # "error")
    => call.content = PolicyContent(call.variant, call.sb, call.files)

\* C28 (amended): the result is fixed by the file list and by what reading
\* each file gives. It is what was read from the first main-file name that
\* matches some listed path (as a substring, or by its name as a suffix) and
\* whose read succeeds with content that is not empty; if there is none,
\* what was read from the first listed file with a source suffix whose
\* read succeeds (in e2b_claude_sync.py: with content that is not empty);
\* and empty content otherwise.
C28_FirstReadableMatch ==
  call.fn = "_get_main_file_content"
    => LET v     == call.variant
           sb    == call.sb
           files == call.files
           cands == main_candidates(v)
           has(f, kinds) == f \in DOMAIN sb /\ sb[f] \in kinds
           hits  == {k \in DOMAIN cands :
                       /\ CandidateMatches(cands[k], files)
                       /\ has(FileOf(v, cands[k]), {"full"})}
           reads == {i \in DOMAIN files :
                       /\ \E e \in SourceSuffixes(v) : EndsWith(files[i], e)
                       /\ has(files[i], IF v = "sync" THEN {"full"}
                                        ELSE {"full", "empty"})}
       IN call.content =
            IF hits # {} THEN ContentOf(FileOf(v, cands[Min(hits)]))
            ELSE IF reads # {} THEN FileContent(sb, files[Min(reads)])
            ELSE <<>>

\* the first main-file name is listed and empty, the second is listed and
\* has content, and the content of the second was returned
C28_Witness ==
  /\ call.fn = "_get_main_file_content"
  /\ LET cands == main_candidates(call.variant)
         first == FileOf(call.variant, cands[1])
         other == FileOf(call.variant, cands[3])
     IN /\ {first, other} \subseteq Range(call.files)
        /\ call.sb[first] = "empty"
        /\ call.sb[other] = "full"
        /\ call.content = ContentOf(other)

\* C29: what _create_local_archive writes to the local archive file is,
\* byte for byte, the archive file of the sandbox: decoding the base64
\* text that the sandbox printed gives back the bytes that were encoded.
C29_ArchiveRoundTrip ==
  call.fn = "_create_local_archive" => call.written = call.bytes

\* an archive with bytes that are no ASCII characters, encoded on more than
\* one line, was downloaded
C29_Witness ==
  /\ call.fn = "_create_local_archive"
  /\ \E i \in DOMAIN call.bytes : call.bytes[i] >= 128
  /\ \E i \in 1..(Len(call.stdout) - 1) : call.stdout[i] = "\n"
  /\ call.written = call.bytes

\* C30 (as claimed): when the response holds several fenced blocks tagged
\* python, the instructions are the bodies of those blocks in their order
\* (a blank line between two of them) and nothing else; an empty response
\* gives empty instructions.
C30_BlocksConcatenated ==
  call.fn = "_generate_code"
    => LET py == SelectSeq(call.segs,
                           LAMBDA g : g.kind = "block" /\ g.tag = "python")
       IN /\ Len(py) >= 2
               => call.code =
                    join(<<"\n", "\n">>, [i \in DOMAIN py |-> Body(py[i])])
          /\ call.text = <<>> => call.code = <<>>

\* the handling of message att.msg has ended and the message failed: an
\* exception reached the except clause of the for loop, or the result of
\* process_task records an exception as status "failed"
MessageFailed ==
  Handled /\ att.exc = "none" /\ (att.caught \/ att.result.status = "failed")

\* C31 (as claimed): an exception raised while processing, recording or
\* deleting one message of a batch leaves the for loop running, so that the
\* remaining messages of the batch are taken next, and the message that
\* failed is not deleted.
C31_BatchIsolation ==
  /\ att.caught => pc = "next" /\ running
  /\ MessageFailed => qstate[att.msg] # "deleted"

\* C32 (as claimed): when process_task of e2b_handler.py or of
\* e2b_claude_sync.py has returned, kill (or close) has been called for
\* every sandbox that was created during the attempt, also when a set-up
\* command of _create_sandbox raised after the creation.
C32_CreatedSandboxKilled ==
  (variant \in {"e2b", "sync"} /\ TaskEnded /\ att.sbx # "none")
    => att.kills >= 1

\* the finally block of process_task is about to run
InFinally == pc \in {"pt_finally", "h_finally", "cs_finally"}

\* where process_task returns to: the consumer's for loop, or test_simple
ReturnsTo == IF variant = "sync" THEN "done" ELSE AfterProcessMessage

\* C33: when kill (or close) is called in the finally block and raises an
\* Exception, so that the sandbox stays live, process_task returns to its
\* caller with the result it had before the finally block, unchanged, and
\* no exception leaves it.
C33_KillFailureAbsorbed ==
  [][(/\ InFinally
      /\ att.exc = "none"
      /\ att'.kills = att.kills + 1
      /\ att'.sbx = "live"
      /\ att'.exc = "none")
       => (att'.result = att.result /\ pc' = ReturnsTo)]_vars

\* process_task returned a completed result although the kill of its
\* sandbox raised
C33_Witness ==
  /\ pc = ReturnsTo
  /\ att.result.status = "completed"
  /\ att.kills = 1
  /\ att.sbx = "live"
  /\ att.exc = "none"

\* C34 (as claimed): a call of _create_local_archive that returns None
\* leaves the directory archives/ as it was: the file of the task is not
\* created, and one written by an earlier attempt is not emptied or changed.
C34_NoneLeavesStoreUnchanged ==
  (call.fn = "_create_local_archive (files)" /\ call.result = "None")
    => call.after = call.before

\* a path inside a directory of this name
InDirectory(f, name) == Contains(f, <<"/">> \o name \o <<"/">>)

\* the files the collector is to return: the qualifying ones, in
\* e2b_claude_sync.py without those inside node_modules or .git
ToCollect(v, fs) ==
  {f \in Qualifying(fs) :
     v = "sync" => /\ ~InDirectory(f, ReNodeModules)
                   /\ ~InDirectory(f, <<".", "g", "i", "t">>)}

\* C35 (as claimed): when fewer than 20 files qualify, _list_created_files
\* returns every file under /tmp with a recognized extension except the
\* generation script /tmp/generate.py (and, in e2b_claude_sync.py, the files
\* inside node_modules or .git directories): no other file is left out
\* because of its name.
C35_CollectorComplete ==
  (/\ call.fn = "_list_created_files"
   /\ OrdinaryNames(call.fs)
   /\ Cardinality(Qualifying(call.fs)) < HeadCount)
    => ToCollect(call.variant, call.fs) \subseteq Range(call.files)

\* C36 (as claimed): content that _get_main_file_content returns, when it
\* is not empty, is the content of a path that is an element of the files
\* list the function was given.
C36_ContentOfListedFile ==
  (call.fn = "_get_main_file_content" /\ call.content # <<>>)
    => \E i \in DOMAIN call.files : call.content = ContentOf(call.files[i])

\* the ids handed out by /run-in-e2b whose sandbox no /kill-sandbox has yet
\* answered "killed" for
Outstanding == returned \ answered

\* C37: active_sandboxes holds exactly the ids that /run-in-e2b returned and
\* for which no /kill-sandbox has answered "killed"; a /kill-sandbox request
\* for any other id answers "not_found" and calls kill on no sandbox
C37_RegistryExact ==
  /\ [](DOMAIN active_sandboxes = Outstanding)
  /\ [][(/\ response'.endpoint = "/kill-sandbox"
         /\ response'.sandbox_id \notin Outstanding)
          => (/\ response'.status = "not_found"
              /\ response'.kills = 0
              /\ cloud' = cloud)]_vars

\* one sandbox was killed through /kill-sandbox, another is still
\* registered, and a second request for the killed one was answered
C37_Witness ==
  /\ response.endpoint = "/kill-sandbox"
  /\ response.status = "not_found"
  /\ response.sandbox_id \in answered
  /\ Outstanding # {}

\* C38: when a /run-in-e2b request ends, the sandbox it created is
\* registered in active_sandboxes or already killed
C38_CreatedSandboxOwned ==
  (response.endpoint = "/run-in-e2b" /\ response.created # 0)
    => \/ \E id \in DOMAIN active_sandboxes :
            active_sandboxes[id] = response.created
       \/ cloud[response.created] = "killed"

\* C39: when start_e2b_preview returns after a KeyboardInterrupt, the sandbox
\* it created is no longer alive
C39_InterruptKillsSandbox ==
  (preview.pc = "returned" /\ preview.exc = "KeyboardInterrupt")
    => cloud[preview.sbx] # "live"

====
